---- MODULE Spec2Model ----
(***************************************************************************)
(* A model of the Delta change-script library: the Delta class (builder    *)
(* and algebra, src/src/Delta.ts) and its aligned iterator                 *)
(* (src/src/OpIterator.ts).                                                *)
(*                                                                         *)
(* Data representation                                                     *)
(*   attribute map   a set of <<key, value>> pairs with distinct keys; the *)
(*                   value "null" is JavaScript's null                     *)
(*   attributes      <<>> when the field is absent (undefined), <<m>> when *)
(*                   it holds the attribute map m                          *)
(*   text            a sequence of one-character strings                   *)
(*   operation       a record [tag, kind, str, num, key, data, attributes] *)
(*                   tag  in {"insert", "delete", "retain"}                *)
(*                   kind in {"string", "number", "object"}: typeof of the *)
(*                        value stored under the tag                       *)
(*                   str  the text (kind "string"), num the count (kind    *)
(*                        "number"), key/data the embed {key: data}        *)
(*                        (kind "object")                                  *)
(*   script          a sequence of operations (Delta.ops)                  *)
(***************************************************************************)
EXTENDS Integers, Sequences, FiniteSets, TLC

\* The value Infinity of the iterator (peekLength at the end of the list).
Infinity == 1000000

\* A minimum that is its first argument.
First(x, y) == x

Min(x, y) == IF x <= y THEN x ELSE y

(***************************************************************************)
(* AttributeMap: compose, invert, diff, transform.                         *)
(***************************************************************************)
Keys(m) == {p[1] : p \in m}

Get(m, k) == (CHOOSE p \in m : p[1] = k)[2]

\* What a function returning "attributes or undefined" returns for map m.
OrUndefined(m) == IF m = {} THEN <<>> ELSE <<m>>

\* The map an optional attributes argument stands for (undefined is {}).
MapOf(attributes) == IF attributes = <<>> THEN {} ELSE attributes[1]

AttrCompose(a, b, keepNull) ==
    LET ma == MapOf(a)
        mb == MapOf(b)
        merged == mb \cup {p \in ma : p[1] \notin Keys(mb)}
        kept == IF keepNull THEN merged ELSE {p \in merged : p[2] # "null"}
    IN  OrUndefined(kept)

AttrInvert(attr, base) ==
    LET ma == MapOf(attr)
        mb == MapOf(base)
        changed == {k \in Keys(ma) : k \notin Keys(mb) \/ Get(ma, k) # Get(mb, k)}
        fromAttr == {<<k, IF k \in Keys(mb) THEN Get(mb, k) ELSE "null">> : k \in changed}
        fromBase == {p \in mb : p[1] \notin Keys(ma)}
    IN  OrUndefined(fromAttr \cup fromBase)

AttrDiff(a, b) ==
    LET ma == MapOf(a)
        mb == MapOf(b)
        differ == {k \in Keys(ma) \cup Keys(mb) :
                      \/ k \notin Keys(ma)
                      \/ k \notin Keys(mb)
                      \/ Get(ma, k) # Get(mb, k)}
    IN  OrUndefined({<<k, IF k \in Keys(mb) THEN Get(mb, k) ELSE "null">> : k \in differ})

AttrTransform(a, b, priority) ==
    LET ma == MapOf(a)
        mb == MapOf(b)
    IN  IF priority
        THEN OrUndefined({p \in mb : p[1] \notin Keys(ma)})
        ELSE OrUndefined(mb)

(***************************************************************************)
(* Op: the operation variants and Op.length.                               *)
(***************************************************************************)
InsertText(s, attributes) ==
    [tag |-> "insert", kind |-> "string", str |-> s, num |-> 0,
     key |-> "", data |-> 0, attributes |-> attributes]

InsertEmbed(k, d, attributes) ==
    [tag |-> "insert", kind |-> "object", str |-> <<>>, num |-> 0,
     key |-> k, data |-> d, attributes |-> attributes]

DeleteOp(n) ==
    [tag |-> "delete", kind |-> "number", str |-> <<>>, num |-> n,
     key |-> "", data |-> 0, attributes |-> <<>>]

RetainNum(n, attributes) ==
    [tag |-> "retain", kind |-> "number", str |-> <<>>, num |-> n,
     key |-> "", data |-> 0, attributes |-> attributes]

RetainEmbed(k, d, attributes) ==
    [tag |-> "retain", kind |-> "object", str |-> <<>>, num |-> 0,
     key |-> k, data |-> d, attributes |-> attributes]

IsInsert(op) == op.tag = "insert"
IsTextInsert(op) == op.tag = "insert" /\ op.kind = "string"
IsEmbedInsert(op) == op.tag = "insert" /\ op.kind = "object"
IsDelete(op) == op.tag = "delete"
IsNumRetain(op) == op.tag = "retain" /\ op.kind = "number"
IsEmbedRetain(op) == op.tag = "retain" /\ op.kind = "object"

OpLength(op) ==
    IF IsDelete(op) THEN op.num
    ELSE IF IsNumRetain(op) THEN op.num
    ELSE IF IsEmbedRetain(op) THEN 1
    ELSE IF IsTextInsert(op) THEN Len(op.str)
    ELSE 1

\* JavaScript truthiness of op.insert, op.delete, op.retain.
TruthyInsert(op) == IsInsert(op) /\ (op.kind = "object" \/ Len(op.str) > 0)
TruthyDelete(op) == IsDelete(op) /\ op.num # 0
TruthyRetain(op) == op.tag = "retain" /\ (op.kind = "object" \/ op.num # 0)
TruthyAttributes(op) == op.attributes # <<>>

(***************************************************************************)
(* OpIterator: a cursor [ops, index, offset]; index counts from 0.         *)
(***************************************************************************)
Iterator(ops) == [ops |-> ops, index |-> 0, offset |-> 0]

HasOp(it) == it.index < Len(it.ops)

Peek(it) == it.ops[it.index + 1]

PeekLength(it) ==
    IF HasOp(it) THEN OpLength(Peek(it)) - it.offset ELSE Infinity

HasNext(it) == PeekLength(it) < Infinity

PeekType(it) ==
    IF HasOp(it)
    THEN IF IsDelete(Peek(it)) THEN "delete"
         ELSE IF Peek(it).tag = "retain" THEN "retain"
         ELSE "insert"
    ELSE "retain"

\* A substr that cuts from the start of the text.
SubstrFromStart(s, offset, length) == SubSeq(s, 1, Min(Len(s), length))

\* substr(offset, length) of a text.
Substr(s, offset, length) ==
    SubSeq(s, offset + 1, Min(Len(s), offset + length))

\* A next that moves to the following operation only when the length asked
\* for exceeds what is left of the current one.
IterNextStrict(it, len) ==
    LET length == IF len = 0 THEN Infinity ELSE len
    IN  IF HasOp(it)
        THEN LET nextOp == Peek(it)
                 offset == it.offset
                 opLength == OpLength(nextOp)
                 whole == length > opLength - offset
                 taken == IF whole THEN opLength - offset ELSE length
                 after == IF whole
                          THEN [it EXCEPT !.index = it.index + 1, !.offset = 0]
                          ELSE [it EXCEPT !.offset = it.offset + length]
                 retOp == IF IsDelete(nextOp) THEN DeleteOp(taken)
                          ELSE IF IsNumRetain(nextOp)
                               THEN RetainNum(taken, nextOp.attributes)
                          ELSE IF IsEmbedRetain(nextOp)
                               THEN RetainEmbed(nextOp.key, nextOp.data, nextOp.attributes)
                          ELSE IF IsTextInsert(nextOp)
                               THEN InsertText(Substr(nextOp.str, offset, taken),
                                               nextOp.attributes)
                          ELSE InsertEmbed(nextOp.key, nextOp.data, nextOp.attributes)
             IN  [op |-> retOp, it |-> after]
        ELSE [op |-> RetainNum(Infinity, <<>>), it |-> it]

\* next(length): the slice returned, and the iterator afterwards.
IterNext(it, len) ==
    LET length == IF len = 0 THEN Infinity ELSE len
    IN  IF HasOp(it)
        THEN LET nextOp == Peek(it)
                 offset == it.offset
                 opLength == OpLength(nextOp)
                 whole == length >= opLength - offset
                 taken == IF whole THEN opLength - offset ELSE length
                 after == IF whole
                          THEN [it EXCEPT !.index = it.index + 1, !.offset = 0]
                          ELSE [it EXCEPT !.offset = it.offset + length]
                 retOp == IF IsDelete(nextOp) THEN DeleteOp(taken)
                          ELSE IF IsNumRetain(nextOp)
                               THEN RetainNum(taken, nextOp.attributes)
                          ELSE IF IsEmbedRetain(nextOp)
                               THEN RetainEmbed(nextOp.key, nextOp.data, nextOp.attributes)
                          ELSE IF IsTextInsert(nextOp)
                               THEN InsertText(Substr(nextOp.str, offset, taken),
                                               nextOp.attributes)
                          ELSE InsertEmbed(nextOp.key, nextOp.data, nextOp.attributes)
             IN  [op |-> retOp, it |-> after]
        ELSE [op |-> RetainNum(Infinity, <<>>), it |-> it]

\* next() without a length.
NextWhole(it) == IterNext(it, 0)

\* rest(): the operations returned, and the iterator afterwards (index and
\* offset are put back after the next() it makes).
IterRest(it) ==
    IF ~HasNext(it) THEN [ops |-> <<>>, it |-> it]
    ELSE IF it.offset = 0
    THEN [ops |-> SubSeq(it.ops, it.index + 1, Len(it.ops)), it |-> it]
    ELSE LET n == NextWhole(it)
         IN  [ops |-> <<n.op>> \o SubSeq(n.it.ops, n.it.index + 1, Len(n.it.ops)),
              it |-> [n.it EXCEPT !.offset = it.offset, !.index = it.index]]

Rest(it) ==
    IF ~HasNext(it) THEN <<>>
    ELSE IF it.offset = 0 THEN SubSeq(it.ops, it.index + 1, Len(it.ops))
    ELSE LET n == NextWhole(it)
         IN  <<n.op>> \o SubSeq(n.it.ops, n.it.index + 1, Len(n.it.ops))

(***************************************************************************)
(* Delta, the builder: push, insert, delete, retain, chop.                 *)
(***************************************************************************)
ReplaceAt(ops, i, op) == [ops EXCEPT ![i] = op]

\* ops.splice(index, 0, op): op becomes the element at 0-based index.
SpliceIn(ops, index, op) ==
    SubSeq(ops, 1, index) \o <<op>> \o SubSeq(ops, index + 1, Len(ops))

\* The merge of newOp into the op at 1-based position i (the attributes of
\* newOp are kept when it has the field).
MergedText(lastOp, newOp) ==
    InsertText(lastOp.str \o newOp.str, newOp.attributes)

MergedRetain(lastOp, newOp) ==
    RetainNum(lastOp.num + newOp.num, newOp.attributes)

\* push, from the point where lastOp = ops[index - 1] is an object.
PushMerge(ops, index, newOp) ==
    LET lastOp == ops[index]
    IN  IF newOp.attributes = lastOp.attributes
           /\ IsTextInsert(newOp) /\ IsTextInsert(lastOp)
        THEN ReplaceAt(ops, index, MergedText(lastOp, newOp))
        ELSE IF newOp.attributes = lastOp.attributes
                /\ IsNumRetain(newOp) /\ IsNumRetain(lastOp)
        THEN ReplaceAt(ops, index, MergedRetain(lastOp, newOp))
        ELSE IF index = Len(ops)
        THEN Append(ops, newOp)
        ELSE SpliceIn(ops, index, newOp)

\* Push without the step that moves an insert before a trailing delete.
PushNoReorder(ops, newOp) ==
    LET index == Len(ops)
    IN  IF index = 0 THEN Append(ops, newOp)
        ELSE LET lastOp == ops[index]
             IN  IF IsDelete(newOp) /\ IsDelete(lastOp)
                 THEN ReplaceAt(ops, index, DeleteOp(lastOp.num + newOp.num))
                 ELSE PushMerge(ops, index, newOp)

Push(ops, newOp) ==
    LET index == Len(ops)
    IN  IF index = 0 THEN Append(ops, newOp)
        ELSE LET lastOp == ops[index]
             IN  IF IsDelete(newOp) /\ IsDelete(lastOp)
                 THEN ReplaceAt(ops, index, DeleteOp(lastOp.num + newOp.num))
                 ELSE IF IsDelete(lastOp) /\ IsInsert(newOp)
                 THEN IF index - 1 = 0
                      THEN <<newOp>> \o ops
                      ELSE PushMerge(ops, index - 1, newOp)
                 ELSE PushMerge(ops, index, newOp)

\* The attributes argument of insert and retain: <<>> for null or undefined,
\* <<m>> for an object; only a non-empty object is stored.
StoredAttributes(attributes) ==
    IF attributes # <<>> /\ attributes[1] # {} THEN attributes ELSE <<>>

\* insert(arg, attributes) with a string arg
DeltaInsertText(ops, s, attributes) ==
    IF Len(s) = 0 THEN ops
    ELSE Push(ops, InsertText(s, StoredAttributes(attributes)))

\* insert(arg, attributes) with an embed arg {k: d}
DeltaInsertEmbed(ops, k, d, attributes) ==
    Push(ops, InsertEmbed(k, d, StoredAttributes(attributes)))

DeltaDelete(ops, length) ==
    IF length <= 0 THEN ops ELSE Push(ops, DeleteOp(length))

\* retain(length, attributes) with a number
DeltaRetain(ops, length, attributes) ==
    IF length <= 0 THEN ops
    ELSE Push(ops, RetainNum(length, StoredAttributes(attributes)))

\* retain(length, attributes) with an embed {k: d}
DeltaRetainEmbed(ops, k, d, attributes) ==
    Push(ops, RetainEmbed(k, d, StoredAttributes(attributes)))

\* Chop without the test for attributes.
ChopAnyRetain(ops) ==
    IF Len(ops) > 0 /\ IsNumRetain(ops[Len(ops)])
    THEN SubSeq(ops, 1, Len(ops) - 1)
    ELSE ops

Chop(ops) ==
    IF Len(ops) > 0 /\ IsNumRetain(ops[Len(ops)]) /\ ~TruthyAttributes(ops[Len(ops)])
    THEN SubSeq(ops, 1, Len(ops) - 1)
    ELSE ops

RECURSIVE SumOver(_, _, _)
\* reduce over ops of a per-op amount, selected by what
SumOver(ops, i, what) ==
    IF i > Len(ops) THEN 0
    ELSE LET elem == ops[i]
             amount == IF what = "length" THEN OpLength(elem)
                       ELSE IF TruthyInsert(elem) THEN OpLength(elem)
                       ELSE IF TruthyDelete(elem) THEN 0 - elem.num
                       ELSE 0
         IN  amount + SumOver(ops, i + 1, what)

ChangeLength(ops) == SumOver(ops, 1, "change")

Length(ops) == SumOver(ops, 1, "length")

(***************************************************************************)
(* The embed registry and the handlers registered in it.  The registry is  *)
(* a set of <<embedType, handler>> pairs with distinct types.  The handler *)
(* "sum" is a counter embed: an update adds to the stored number modulo    *)
(* EmbedModulus, so updates compose by addition, invert by negation and commute *)
(* (transform returns the other side unchanged).                           *)
(***************************************************************************)
EmbedModulus == 3

Registered(registry, embedType) == \E p \in registry : p[1] = embedType

HandlerCompose(handler, x, y, keepNull) == (x + y) % EmbedModulus

HandlerInvert(handler, x, y) == (EmbedModulus - x) % EmbedModulus

HandlerTransform(handler, x, y, prio) == y

(***************************************************************************)
(* Results of the algebra: the script returned, or the error thrown.       *)
(***************************************************************************)
Ok(ops) == [error |-> "", ops |-> ops]

Throw(error) == [error |-> error, ops |-> <<>>]

\* A getEmbedTypeAndData that does not compare the embed types.
EmbedTypeErrorAnyType(x, xAbsent, y, yAbsent) ==
    IF xAbsent \/ x.kind # "object" THEN "CannotRetainNonObject"
    ELSE IF yAbsent \/ y.kind # "object" THEN "CannotRetainNonObject"
    ELSE ""

\* getEmbedTypeAndData(a, b) for operations x and y, of which it reads
\* x[tag] and y[tag]: the error it throws, or "".  absent tells that a tag
\* of the operation is not there (y.insert of a retain).
EmbedTypeError(x, xAbsent, y, yAbsent) ==
    IF xAbsent \/ x.kind # "object" THEN "CannotRetainNonObject"
    ELSE IF yAbsent \/ y.kind # "object" THEN "CannotRetainNonObject"
    ELSE IF x.key # y.key THEN "EmbedTypeMismatch"
    ELSE ""

\* getHandler(embedType): the error it throws, or "".
HandlerError(registry, embedType) ==
    IF Registered(registry, embedType) THEN "" ELSE "UnknownEmbedType"

HandlerOf(registry, embedType) ==
    (CHOOSE p \in registry : p[1] = embedType)[2]

WithAttributes(op, attributes) == [op EXCEPT !.attributes = attributes]

(***************************************************************************)
(* slice and concat.                                                       *)
(***************************************************************************)
RECURSIVE SliceLoop(_, _, _, _, _)
SliceLoop(iter, idx, start, end, acc) ==
    IF idx < end /\ HasNext(iter)
    THEN IF idx < start
         THEN LET n == IterNext(iter, start - idx)
              IN  SliceLoop(n.it, idx + OpLength(n.op), start, end, acc)
         ELSE LET n == IterNext(iter, end - idx)
              IN  SliceLoop(n.it, idx + OpLength(n.op), start, end, Append(acc, n.op))
    ELSE acc

Slice(ops, start, end) == SliceLoop(Iterator(ops), 0, start, end, <<>>)

\* A concat that appends the operations of other as they are.
ConcatRaw(ops, otherOps) == ops \o otherOps

Concat(ops, otherOps) ==
    IF Len(otherOps) > 0
    THEN Push(ops, otherOps[1]) \o Tail(otherOps)
    ELSE ops

(***************************************************************************)
(* compose.                                                                *)
(***************************************************************************)
RECURSIVE ComposePrefix(_, _, _)
\* The while loop of the prefix optimization: [it, left, ops].
ComposePrefix(thisIter, firstLeft, acc) ==
    IF PeekType(thisIter) = "insert" /\ PeekLength(thisIter) <= firstLeft
    THEN LET n == NextWhole(thisIter)
         IN  ComposePrefix(n.it, firstLeft - PeekLength(thisIter), Append(acc, n.op))
    ELSE [it |-> thisIter, left |-> firstLeft, ops |-> acc]

\* The operation compose makes of thisOp and a retain otherOp, before the
\* attributes are set: [error, op].
\* A compose whose retain of an integer retain is always an integer retain.
ComposeRetainCount(thisOp, otherOp, length, registry) ==
    IF IsNumRetain(thisOp) THEN [error |-> "", op |-> RetainNum(length, <<>>)]
    ELSE IF IsNumRetain(otherOp)
    THEN [error |-> "", op |-> WithAttributes(thisOp, <<>>)]
    ELSE LET typeError == EmbedTypeError(thisOp, FALSE, otherOp, FALSE)
             noHandler == HandlerError(registry, thisOp.key)
             composed == HandlerCompose(HandlerOf(registry, thisOp.key),
                                        thisOp.data, otherOp.data,
                                        thisOp.tag = "retain")
         IN  IF typeError # "" THEN [error |-> typeError, op |-> thisOp]
             ELSE IF noHandler # "" THEN [error |-> noHandler, op |-> thisOp]
             ELSE [error |-> "",
                   op |-> IF thisOp.tag = "retain"
                          THEN RetainEmbed(thisOp.key, composed, <<>>)
                          ELSE InsertEmbed(thisOp.key, composed, <<>>)]

ComposeRetain(thisOp, otherOp, length, registry) ==
    IF IsNumRetain(thisOp)
    THEN [error |-> "",
          op |-> IF IsNumRetain(otherOp) THEN RetainNum(length, <<>>)
                 ELSE RetainEmbed(otherOp.key, otherOp.data, <<>>)]
    ELSE IF IsNumRetain(otherOp)
    THEN [error |-> "", op |-> WithAttributes(thisOp, <<>>)]
    ELSE LET typeError == EmbedTypeError(thisOp, FALSE, otherOp, FALSE)
             noHandler == HandlerError(registry, thisOp.key)
             composed == HandlerCompose(HandlerOf(registry, thisOp.key),
                                        thisOp.data, otherOp.data,
                                        thisOp.tag = "retain")
         IN  IF typeError # "" THEN [error |-> typeError, op |-> thisOp]
             ELSE IF noHandler # "" THEN [error |-> noHandler, op |-> thisOp]
             ELSE [error |-> "",
                   op |-> IF thisOp.tag = "retain"
                          THEN RetainEmbed(thisOp.key, composed, <<>>)
                          ELSE InsertEmbed(thisOp.key, composed, <<>>)]

RECURSIVE ComposeLoop(_, _, _, _)
ComposeLoop(thisIter, otherIter, delta, registry) ==
    IF ~(HasNext(thisIter) \/ HasNext(otherIter)) THEN Ok(Chop(delta))
    ELSE IF PeekType(otherIter) = "insert"
    THEN LET n == NextWhole(otherIter)
         IN  ComposeLoop(thisIter, n.it, Push(delta, n.op), registry)
    ELSE IF PeekType(thisIter) = "delete"
    THEN LET n == NextWhole(thisIter)
         IN  ComposeLoop(n.it, otherIter, Push(delta, n.op), registry)
    ELSE LET length == Min(PeekLength(thisIter), PeekLength(otherIter))
             t == IterNext(thisIter, length)
             o == IterNext(otherIter, length)
             thisOp == t.op
             otherOp == o.op
         IN  IF TruthyRetain(otherOp)
             THEN LET made == ComposeRetain(thisOp, otherOp, length, registry)
                      attributes == AttrCompose(thisOp.attributes, otherOp.attributes,
                                                IsNumRetain(thisOp))
                      newOp == WithAttributes(made.op, attributes)
                      pushed == Push(delta, newOp)
                  IN  IF made.error # "" THEN Throw(made.error)
                      ELSE IF ~HasNext(o.it) /\ pushed[Len(pushed)] = newOp
                      THEN Ok(Chop(Concat(pushed, Rest(t.it))))
                      ELSE ComposeLoop(t.it, o.it, pushed, registry)
             ELSE IF IsDelete(otherOp) /\ thisOp.tag = "retain"
             THEN ComposeLoop(t.it, o.it, Push(delta, otherOp), registry)
             ELSE ComposeLoop(t.it, o.it, delta, registry)

\* compose whose prefix optimization does not advance other past the part of
\* its first retain that was covered.
ComposeNoAdvance(ops, otherOps, registry) ==
    LET thisIter == Iterator(ops)
        otherIter == Iterator(otherOps)
        optimize == /\ HasOp(otherIter)
                    /\ IsNumRetain(Peek(otherIter))
                    /\ Peek(otherIter).attributes = <<>>
        prefix == ComposePrefix(thisIter, Peek(otherIter).num, <<>>)
    IN  IF optimize
        THEN ComposeLoop(prefix.it, otherIter, prefix.ops, registry)
        ELSE ComposeLoop(thisIter, otherIter, <<>>, registry)

Compose(ops, otherOps, registry) ==
    LET thisIter == Iterator(ops)
        otherIter == Iterator(otherOps)
        optimize == /\ HasOp(otherIter)
                    /\ IsNumRetain(Peek(otherIter))
                    /\ Peek(otherIter).attributes = <<>>
        firstOther == Peek(otherIter)
        prefix == ComposePrefix(thisIter, firstOther.num, <<>>)
        covered == firstOther.num - prefix.left
    IN  IF optimize
        THEN ComposeLoop(prefix.it,
                         IF covered > 0 THEN IterNext(otherIter, covered).it
                         ELSE otherIter,
                         prefix.ops, registry)
        ELSE ComposeLoop(thisIter, otherIter, <<>>, registry)

(***************************************************************************)
(* transform of a script, and of a position.                               *)
(***************************************************************************)
\* The retain transform emits for two aligned retains: [error, ops], ops
\* being delta after the retain call.
TransformRetain(delta, thisOp, otherOp, length, prio, registry) ==
    LET attributes == AttrTransform(thisOp.attributes, otherOp.attributes, prio)
        bothEmbeds == IsEmbedRetain(thisOp) /\ IsEmbedRetain(otherOp)
        sameType == bothEmbeds /\ thisOp.key = otherOp.key
    IN  IF sameType /\ HandlerError(registry, thisOp.key) # ""
        THEN Throw(HandlerError(registry, thisOp.key))
        ELSE IF sameType
        THEN Ok(DeltaRetainEmbed(delta, thisOp.key,
                    HandlerTransform(HandlerOf(registry, thisOp.key),
                                     thisOp.data, otherOp.data, prio),
                    attributes))
        ELSE IF IsEmbedRetain(otherOp)
        THEN Ok(DeltaRetainEmbed(delta, otherOp.key, otherOp.data, attributes))
        ELSE Ok(DeltaRetain(delta, length, attributes))

RECURSIVE TransformLoop(_, _, _, _, _)
TransformLoop(thisIter, otherIter, delta, prio, registry) ==
    IF ~(HasNext(thisIter) \/ HasNext(otherIter)) THEN Ok(Chop(delta))
    ELSE IF PeekType(thisIter) = "insert"
            /\ (prio \/ PeekType(otherIter) # "insert")
    THEN LET n == NextWhole(thisIter)
         IN  TransformLoop(n.it, otherIter,
                           DeltaRetain(delta, OpLength(n.op), <<>>), prio, registry)
    ELSE IF PeekType(otherIter) = "insert"
    THEN LET n == NextWhole(otherIter)
         IN  TransformLoop(thisIter, n.it, Push(delta, n.op), prio, registry)
    ELSE LET length == Min(PeekLength(thisIter), PeekLength(otherIter))
             t == IterNext(thisIter, length)
             o == IterNext(otherIter, length)
             thisOp == t.op
             otherOp == o.op
             kept == TransformRetain(delta, thisOp, otherOp, length, prio, registry)
         IN  IF TruthyDelete(thisOp)
             THEN TransformLoop(t.it, o.it, delta, prio, registry)
             ELSE IF TruthyDelete(otherOp)
             THEN TransformLoop(t.it, o.it, Push(delta, otherOp), prio, registry)
             ELSE IF kept.error # "" THEN kept
             ELSE TransformLoop(t.it, o.it, kept.ops, prio, registry)

\* transform with the priority argument dropped.
TransformNoPriority(ops, otherOps, prio, registry) ==
    TransformLoop(Iterator(ops), Iterator(otherOps), <<>>, FALSE, registry)

Transform(ops, otherOps, prio, registry) ==
    TransformLoop(Iterator(ops), Iterator(otherOps), <<>>, prio, registry)

RECURSIVE PositionLoop(_, _, _, _)
PositionLoop(thisIter, offset, idx, prio) ==
    IF HasNext(thisIter) /\ offset <= idx
    THEN LET length == PeekLength(thisIter)
             nextType == PeekType(thisIter)
             after == NextWhole(thisIter).it
         IN  IF nextType = "delete"
             THEN PositionLoop(after, offset, idx - Min(length, idx - offset), prio)
             ELSE IF nextType = "insert" /\ (offset < idx \/ ~prio)
             THEN PositionLoop(after, offset + length, idx + length, prio)
             ELSE PositionLoop(after, offset + length, idx, prio)
    ELSE idx

RECURSIVE PositionLoopAdvancing(_, _, _, _)
\* transformPosition whose offset advances past a delete as well.
PositionLoopAdvancing(thisIter, offset, idx, prio) ==
    IF HasNext(thisIter) /\ offset <= idx
    THEN LET length == PeekLength(thisIter)
             nextType == PeekType(thisIter)
             after == NextWhole(thisIter).it
         IN  IF nextType = "delete"
             THEN PositionLoopAdvancing(after, offset + length,
                                        idx - Min(length, idx - offset), prio)
             ELSE IF nextType = "insert" /\ (offset < idx \/ ~prio)
             THEN PositionLoopAdvancing(after, offset + length, idx + length, prio)
             ELSE PositionLoopAdvancing(after, offset + length, idx, prio)
    ELSE idx

TransformPositionAdvancing(ops, idx, prio) ==
    PositionLoopAdvancing(Iterator(ops), 0, idx, prio)

TransformPosition(ops, idx, prio) == PositionLoop(Iterator(ops), 0, idx, prio)

(***************************************************************************)
(* invert.                                                                 *)
(***************************************************************************)
RECURSIVE InvertSlice(_, _, _, _)
\* slice.forEach of invert, for a delete or an integer retain op.
InvertSlice(slice, j, op, inverted) ==
    IF j > Len(slice) THEN inverted
    ELSE LET baseOp == slice[j]
         IN  IF TruthyDelete(op)
             THEN InvertSlice(slice, j + 1, op, Push(inverted, baseOp))
             ELSE IF TruthyRetain(op) /\ TruthyAttributes(op)
             THEN InvertSlice(slice, j + 1, op,
                      DeltaRetain(inverted, OpLength(baseOp),
                                  AttrInvert(op.attributes, baseOp.attributes)))
             ELSE InvertSlice(slice, j + 1, op, inverted)

RECURSIVE InvertLoop(_, _, _, _, _, _)
InvertLoop(ops, i, baseIndex, inverted, base, registry) ==
    IF i > Len(ops) THEN Ok(Chop(inverted))
    ELSE LET op == ops[i]
         IN  IF TruthyInsert(op)
             THEN InvertLoop(ops, i + 1, baseIndex,
                             DeltaDelete(inverted, OpLength(op)), base, registry)
             ELSE IF IsNumRetain(op) /\ op.attributes = <<>>
             THEN InvertLoop(ops, i + 1, baseIndex + op.num,
                             DeltaRetain(inverted, op.num, <<>>), base, registry)
             ELSE IF TruthyDelete(op) \/ IsNumRetain(op)
             THEN InvertLoop(ops, i + 1, baseIndex + op.num,
                             InvertSlice(Slice(base, baseIndex, baseIndex + op.num),
                                         1, op, inverted),
                             base, registry)
             ELSE IF IsEmbedRetain(op)
             THEN LET baseOp == NextWhole(Iterator(Slice(base, baseIndex,
                                                         baseIndex + 1))).op
                      typeError == EmbedTypeError(op, FALSE, baseOp, ~IsInsert(baseOp))
                      noHandler == HandlerError(registry, op.key)
                  IN  IF typeError # "" THEN Throw(typeError)
                      ELSE IF noHandler # "" THEN Throw(noHandler)
                      ELSE InvertLoop(ops, i + 1, baseIndex + 1,
                               DeltaRetainEmbed(inverted, op.key,
                                   HandlerInvert(HandlerOf(registry, op.key),
                                                 op.data, baseOp.data),
                                   AttrInvert(op.attributes, baseOp.attributes)),
                               base, registry)
             ELSE InvertLoop(ops, i + 1, baseIndex, inverted, base, registry)

\* invert that reads the base from its start for every operation.
InvertFromStart(ops, base, registry) ==
    InvertLoop(ops, 1, 0, <<>>, Slice(base, 0, 1), registry)

Invert(ops, base, registry) == InvertLoop(ops, 1, 0, <<>>, base, registry)

(***************************************************************************)
(* diff.  The string diff is external: edits is the edit script it         *)
(* returned, a sequence of components [type, length], type one of "EQUAL", *)
(* "INSERT", "DELETE" and length the length of the component's text.       *)
(***************************************************************************)
\* The placeholder character for an embed.
NULL_CHARACTER == "NUL"

RECURSIVE DiffString(_, _)
\* The string diff builds of a document, from operation i on.
DiffString(ops, i) ==
    IF i > Len(ops) THEN <<>>
    ELSE (IF IsTextInsert(ops[i]) THEN ops[i].str ELSE <<NULL_CHARACTER>>)
         \o DiffString(ops, i + 1)

IsDocument(ops) == \A i \in 1 .. Len(ops) : IsInsert(ops[i])

\* An isEqual that compares the types of the two values only.
SameTypeOfInsert(x, y) == x.kind = y.kind /\ x.key = y.key

\* isEqual(thisOp.insert, otherOp.insert)
SameInsert(x, y) ==
    x.kind = y.kind /\ x.str = y.str /\ x.key = y.key /\ x.data = y.data

RECURSIVE DiffLoop(_, _, _, _, _, _)
\* The walk over the components: k is the component, length what is left of it.
DiffLoop(components, k, length, thisIter, otherIter, retDelta) ==
    IF k > Len(components) THEN Ok(Chop(retDelta))
    ELSE IF length <= 0
    THEN DiffLoop(components, k + 1,
                  IF k + 1 <= Len(components) THEN components[k + 1].length ELSE 0,
                  thisIter, otherIter, retDelta)
    ELSE IF components[k].type = "INSERT"
    THEN LET opLength == Min(PeekLength(otherIter), length)
             o == IterNext(otherIter, opLength)
         IN  DiffLoop(components, k, length - opLength, thisIter, o.it,
                      Push(retDelta, o.op))
    ELSE IF components[k].type = "DELETE"
    THEN LET opLength == Min(length, PeekLength(thisIter))
             t == IterNext(thisIter, opLength)
         IN  DiffLoop(components, k, length - opLength, t.it, otherIter,
                      DeltaDelete(retDelta, opLength))
    ELSE LET opLength == Min(Min(PeekLength(thisIter), PeekLength(otherIter)), length)
             t == IterNext(thisIter, opLength)
             o == IterNext(otherIter, opLength)
         IN  DiffLoop(components, k, length - opLength, t.it, o.it,
                  IF SameInsert(t.op, o.op)
                  THEN DeltaRetain(retDelta, opLength,
                                   AttrDiff(t.op.attributes, o.op.attributes))
                  ELSE DeltaDelete(Push(retDelta, o.op), opLength))

\* sameArray: this.ops and other.ops are one and the same array.
Diff(ops, otherOps, sameArray, components) ==
    IF sameArray THEN Ok(<<>>)
    ELSE IF ~IsDocument(ops) \/ ~IsDocument(otherOps) THEN Throw("NotADocument")
    ELSE DiffLoop(components, 1,
                  IF Len(components) > 0 THEN components[1].length ELSE 0,
                  Iterator(ops), Iterator(otherOps), <<>>)

(***************************************************************************)
(* Bounds of the model and the argument sets drawn from them.              *)
(***************************************************************************)
\* Builder runs: the most operations, and the most positions, a script under
\* construction may hold.
MaxOps == 3
MaxLength == 3

Chars == {"a", "b"}

\* String arguments of insert: the empty string and one-character strings.
TextArgs == {<<>>} \cup {<<c>> : c \in Chars}

\* The attributes arguments of the builder calls: undefined, the empty
\* object, an attribute map.
AttrMaps == {{<<"b", "true">>}}
AttrArgs == {<<>>, <<{}>>} \cup {<<m>> : m \in AttrMaps}

\* Count arguments of delete and retain, non-positive ones included.
CountArgs == -1 .. 1

\* Embed values {key: data}.
EmbedKeys == {"img"}
EmbedData == {1}

(***************************************************************************)
(* State.                                                                  *)
(*   heap      the operation arrays, by name                               *)
(*   thisRef   the array this.ops refers to                                *)
(*   otherRef  the array other.ops refers to                               *)
(*   priority, index, edits   arguments of the calls                       *)
(*   handlers  the embed registry (Delta.handlers)                         *)
(*   call      the last call made: its name and the operation it handed to *)
(*             push (<<>> when it pushed nothing)                          *)
(*   out       the results returned by the calls made so far               *)
(*   iter      an OpIterator the caller holds: its ops, index and offset   *)
(*   offset    the local offset of a transformPosition under way           *)
(***************************************************************************)
VARIABLES heap, thisRef, otherRef, priority, index, edits, handlers, call, out,
          iter, offset

vars == <<heap, thisRef, otherRef, priority, index, edits, handlers, call, out,
          iter, offset>>

args == <<thisRef, otherRef, priority, index, edits, handlers, iter, offset>>

EmptyHeap == [a |-> <<>>, b |-> <<>>, d |-> <<>>]

NoCall == [name |-> "new", pushed |-> <<>>]

Called(name, pushed) == [name |-> name, pushed |-> pushed]

\* The bound on a script under construction.
WithinBounds(ops) == Len(ops) <= MaxOps /\ Length(ops) <= MaxLength

(***************************************************************************)
(* The builder: new Delta() followed by insert, delete, retain and chop    *)
(* calls on it.                                                            *)
(***************************************************************************)
InitBuilder ==
    /\ heap = EmptyHeap
    /\ thisRef = "a"
    /\ otherRef = "b"
    /\ priority = FALSE
    /\ index = 0
    /\ edits = <<>>
    /\ handlers = {}
    /\ call = NoCall
    /\ out = <<>>
    /\ iter = Iterator(<<>>)
    /\ offset = 0

\* this.ops becomes ops, by a call that handed pushed to push.
Built(name, ops, pushed) ==
    /\ WithinBounds(ops)
    /\ heap' = [heap EXCEPT ![thisRef] = ops]
    /\ call' = Called(name, pushed)
    /\ UNCHANGED <<args, out>>

InsertTextCall ==
    \E s \in TextArgs, attributes \in AttrArgs :
        Built("insert", DeltaInsertText(heap[thisRef], s, attributes),
              IF Len(s) = 0 THEN <<>>
              ELSE <<InsertText(s, StoredAttributes(attributes))>>)

InsertEmbedCall ==
    \E k \in EmbedKeys, v \in EmbedData, attributes \in AttrArgs :
        Built("insert", DeltaInsertEmbed(heap[thisRef], k, v, attributes),
              <<InsertEmbed(k, v, StoredAttributes(attributes))>>)

DeleteCall ==
    \E n \in CountArgs :
        Built("delete", DeltaDelete(heap[thisRef], n),
              IF n <= 0 THEN <<>> ELSE <<DeleteOp(n)>>)

RetainCall ==
    \E n \in CountArgs, attributes \in AttrArgs :
        Built("retain", DeltaRetain(heap[thisRef], n, attributes),
              IF n <= 0 THEN <<>>
              ELSE <<RetainNum(n, StoredAttributes(attributes))>>)

RetainEmbedCall ==
    \E k \in EmbedKeys, v \in EmbedData, attributes \in AttrArgs :
        Built("retain", DeltaRetainEmbed(heap[thisRef], k, v, attributes),
              <<RetainEmbed(k, v, StoredAttributes(attributes))>>)

ChopCall == Built("chop", Chop(heap[thisRef]), <<>>)

NextBuilder ==
    \/ InsertTextCall
    \/ InsertEmbedCall
    \/ DeleteCall
    \/ RetainCall
    \/ RetainEmbedCall
    \/ ChopCall

SpecBuilder == InitBuilder /\ [][NextBuilder]_vars

\* The script under construction.
Script == heap[thisRef]

Mergeable(x, y) ==
    \/ IsDelete(x) /\ IsDelete(y)
    \/ IsTextInsert(x) /\ IsTextInsert(y) /\ x.attributes = y.attributes
    \/ IsNumRetain(x) /\ IsNumRetain(y) /\ x.attributes = y.attributes

NoZeroLength(ops) == \A i \in 1 .. Len(ops) : OpLength(ops[i]) > 0

NoMergeable(ops) == \A i \in 1 .. Len(ops) - 1 : ~Mergeable(ops[i], ops[i + 1])

BareRetain(op) == IsNumRetain(op) /\ op.attributes = <<>>

NoTrailingBareRetain(ops) == Len(ops) = 0 \/ ~BareRetain(ops[Len(ops)])

\* C7: after any sequence of insert, delete and retain calls on an empty
\* script, no stored operation has length zero and no two adjacent operations
\* are mergeable; right after chop the last operation is not an integer
\* retain without attributes.
C7_BuilderNormalization ==
    /\ NoZeroLength(Script)
    /\ NoMergeable(Script)
    /\ (call.name = "chop" => NoTrailingBareRetain(Script))

\* A chop has just left a script whose text insert was merged from two
\* insert calls and whose last operation is a retain with attributes.
C7_Witness ==
    /\ call.name = "chop"
    /\ Len(Script) = 2
    /\ IsTextInsert(Script[1]) /\ Len(Script[1].str) = 2
    /\ IsNumRetain(Script[2]) /\ Script[2].attributes # <<>>

(***************************************************************************)
(* The builder with push: the calls above and push(op) of any operation;   *)
(* an empty insert, a zero delete and an insert with an empty attributes   *)
(* object are among the operations pushed.                                 *)
(***************************************************************************)
PushAttrs == {<<>>} \cup {<<m>> : m \in AttrMaps}

PushArgs ==
    {InsertText(<<c>>, at) : c \in Chars, at \in PushAttrs}
    \cup {InsertEmbed(k, v, at) : k \in EmbedKeys, v \in EmbedData, at \in PushAttrs}
    \cup {DeleteOp(1)}
    \cup {RetainNum(1, at) : at \in PushAttrs}
    \cup {RetainEmbed(k, v, at) : k \in EmbedKeys, v \in EmbedData, at \in PushAttrs}
    \cup {InsertText(<<>>, <<>>), DeleteOp(0), InsertText(<<"a">>, <<{}>>)}

PushCall ==
    \E op \in PushArgs : Built("push", Push(heap[thisRef], op), <<op>>)

NextPush == NextBuilder \/ PushCall

SpecPush == InitBuilder /\ [][NextPush]_vars

NoInsertAfterDelete(ops) ==
    \A i \in 1 .. Len(ops) - 1 : ~(IsDelete(ops[i]) /\ IsInsert(ops[i + 1]))

\* Where an insert handed to push must end up when ops ends with a delete.
BeforeTrailingDelete(ops, newOp) ==
    LET n == Len(ops)
    IN  IF n >= 2 /\ IsTextInsert(ops[n - 1]) /\ IsTextInsert(newOp)
           /\ ops[n - 1].attributes = newOp.attributes
        THEN SubSeq(ops, 1, n - 2)
             \o <<InsertText(ops[n - 1].str \o newOp.str, newOp.attributes), ops[n]>>
        ELSE SubSeq(ops, 1, n - 1) \o <<newOp, ops[n]>>

\* A step that hands an insert to push while the last operation is a delete.
InsertAfterDeleteStep ==
    /\ Len(Script) > 0
    /\ IsDelete(Script[Len(Script)])
    /\ call'.pushed # <<>>
    /\ IsInsert(call'.pushed[1])

\* C8: after any sequence of insert, delete, retain and push calls on an
\* empty script no insert is stored immediately after a delete, and an insert
\* appended while the last operation is a delete is placed directly before
\* that delete, merged into the preceding text insert when both are text with
\* equal attributes.
C8_InsertBeforeDelete ==
    /\ [](NoInsertAfterDelete(Script))
    /\ [][InsertAfterDeleteStep =>
            heap'[thisRef] = BeforeTrailingDelete(Script, call'.pushed[1])]_vars

\* An insert call has just been made and the script ends with a delete that
\* follows a text insert merged from two.
C8_Witness ==
    /\ call.name \in {"insert", "push"}
    /\ call.pushed # <<>> /\ IsTextInsert(call.pushed[1])
    /\ Len(Script) = 2
    /\ IsTextInsert(Script[1]) /\ Len(Script[1].str) = 2
    /\ IsDelete(Script[2])

(***************************************************************************)
(* Scripts as the builder makes them: every list of operations is pushed,  *)
(* one operation after the other, onto an empty script.                    *)
(***************************************************************************)
SeqsUpTo(S, n) == UNION {[1 .. k -> S] : k \in 0 .. n}

RECURSIVE PushAll(_, _, _)
PushAll(ops, pushes, i) ==
    IF i > Len(pushes) THEN ops
    ELSE PushAll(Push(ops, pushes[i]), pushes, i + 1)

Built_(alphabet, n) == {PushAll(<<>>, pushes, 1) : pushes \in SeqsUpTo(alphabet, n)}

True == <<{<<"b", "true">>}>>
False == <<{<<"b", "false">>}>>
Null == <<{<<"b", "null">>}>>
Italic == <<{<<"i", "true">>}>>

(***************************************************************************)
(* transform of two concurrent scripts a and b, and the compositions that  *)
(* bring both sides together:                                              *)
(*   out[1] = a.transform(b, priority)    out[2] = b.transform(a, !priority)*)
(*   out[3] = a.compose(out[1])           out[4] = b.compose(out[2])       *)
(*   out[5] = a.compose(out[2])           out[6] = b.compose(out[1])       *)
(* the last two being made when priority is false.                         *)
(***************************************************************************)
MaxTransformOps == 2

AllHandlers == {<<"img", "sum">>, <<"vid", "sum">>}

\* The operations the two scripts are made of and the registries they meet,
\* one family for a run: inserts against deletes and retains, retains that
\* set, replace and unset an attribute, inserts that carry a null attribute,
\* embed retains with and without their handlers.
TransformFamilies ==
    <<[ops |-> {InsertText(<<"a">>, <<>>), InsertText(<<"b">>, True), DeleteOp(1),
                RetainNum(1, <<>>), RetainNum(1, True)},
       registries |-> {{}}],
      [ops |-> {RetainNum(1, <<>>), RetainNum(1, True), RetainNum(1, False),
                RetainNum(1, Null), DeleteOp(1)},
       registries |-> {{}}],
      [ops |-> {InsertText(<<"a">>, Null), InsertEmbed("img", 1, <<>>), DeleteOp(1),
                RetainNum(1, <<>>), RetainNum(1, False)},
       registries |-> {{}}],
      [ops |-> {RetainEmbed("img", 1, <<>>), RetainEmbed("img", 2, True),
                RetainEmbed("vid", 1, <<>>), RetainNum(1, False), DeleteOp(1)},
       registries |-> {{}, AllHandlers}]>>

InitTransform ==
    /\ \E f \in DOMAIN TransformFamilies :
           /\ heap \in {[a |-> x, b |-> y, d |-> <<>>] :
                           x \in Built_(TransformFamilies[f].ops, MaxTransformOps),
                           y \in Built_(TransformFamilies[f].ops, MaxTransformOps)}
           /\ handlers \in TransformFamilies[f].registries
    /\ thisRef = "a"
    /\ otherRef = "b"
    /\ priority \in BOOLEAN
    /\ index = 0
    /\ edits = <<>>
    /\ call = NoCall
    /\ out = <<>>
    /\ iter = Iterator(<<>>)
    /\ offset = 0

Returned(name, result) ==
    /\ out' = Append(out, result)
    /\ call' = Called(name, <<>>)
    /\ UNCHANGED <<heap, args>>

TransformCall ==
    /\ Len(out) < 2
    /\ Returned("transform",
                IF Len(out) = 0
                THEN Transform(heap.a, heap.b, priority, handlers)
                ELSE Transform(heap.b, heap.a, ~priority, handlers))

ComposeCall ==
    /\ Len(out) \in 2 .. (IF priority THEN 3 ELSE 5)
    /\ out[1].error = "" /\ out[2].error = ""
    /\ Returned("compose",
                CASE Len(out) = 2 -> Compose(heap.a, out[1].ops, handlers)
                  [] Len(out) = 3 -> Compose(heap.b, out[2].ops, handlers)
                  [] Len(out) = 4 -> Compose(heap.a, out[2].ops, handlers)
                  [] Len(out) = 5 -> Compose(heap.b, out[1].ops, handlers))

NextTransform == TransformCall \/ ComposeCall

SpecTransform == InitTransform /\ [][NextTransform]_vars

HasEmbedRetain(ops) == \E i \in 1 .. Len(ops) : IsEmbedRetain(ops[i])

HasNullInsert(ops) ==
    \E i \in 1 .. Len(ops) :
        IsInsert(ops[i]) /\ \E p \in MapOf(ops[i].attributes) : p[2] = "null"

\* C1 as claimed: for normal-form scripts a and b without embed retains and
\* either priority p, a.compose(a.transform(b, p)) and
\* b.compose(b.transform(a, !p)) are the same list of operations.
C1_TP1_AnyScripts ==
    (Len(out) >= 4 /\ ~HasEmbedRetain(heap.a) /\ ~HasEmbedRetain(heap.b))
        => out[3] = out[4]

\* C1, amended: the same, for scripts none of whose inserts carries a
\* null-valued attribute.
C1_TP1 ==
    (/\ Len(out) >= 4
     /\ ~HasEmbedRetain(heap.a) /\ ~HasEmbedRetain(heap.b)
     /\ ~HasNullInsert(heap.a) /\ ~HasNullInsert(heap.b))
        => out[3] = out[4]

\* Both scripts insert at the start of the base and a deletes what b sets an
\* attribute on; the two compositions have been made.
C1_Witness ==
    /\ Len(out) >= 4
    /\ priority
    /\ Len(heap.a) = 2 /\ IsTextInsert(heap.a[1]) /\ IsDelete(heap.a[2])
    /\ Len(heap.b) = 2 /\ IsTextInsert(heap.b[1]) /\ IsNumRetain(heap.b[2])
    /\ heap.b[2].attributes # <<>>
    /\ out[3].error = "" /\ Len(out[3].ops) = 3

MaxPositionOps == 3
MaxPosition == 4

PositionOps ==
    {InsertText(<<"a">>, <<>>), InsertText(<<"b">>, True), InsertEmbed("img", 1, <<>>),
     DeleteOp(1), RetainNum(1, <<>>), RetainNum(1, True), RetainEmbed("img", 1, <<>>)}

InitPosition ==
    /\ heap \in {[a |-> x, b |-> <<>>, d |-> <<>>] :
                    x \in Built_(PositionOps, MaxPositionOps)}
    /\ thisRef = "a"
    /\ otherRef = "b"
    /\ priority \in BOOLEAN
    /\ index \in 0 .. MaxPosition
    /\ edits = <<>>
    /\ handlers = {}
    /\ call = NoCall
    /\ out = <<>>
    /\ iter = Iterator(<<>>)
    /\ offset = 0

TransformPositionCall ==
    /\ Len(out) = 0
    /\ Returned("transformPosition", TransformPosition(heap.a, index, priority))

NextPosition == TransformPositionCall

SpecPosition == InitPosition /\ [][NextPosition]_vars

\* The base position operation i of ops stands at: the positions the retains
\* and deletes before it cover.
RECURSIVE BasePosition(_, _)
BasePosition(ops, i) ==
    IF i <= 1 THEN 0
    ELSE BasePosition(ops, i - 1)
         + (IF IsInsert(ops[i - 1]) THEN 0 ELSE OpLength(ops[i - 1]))

DeletesPosition(ops, q) ==
    \E i \in 1 .. Len(ops) :
        /\ IsDelete(ops[i])
        /\ BasePosition(ops, i) <= q
        /\ q < BasePosition(ops, i) + ops[i].num

RECURSIVE InsertedUpTo(_, _, _, _)
\* The length of the inserts among the first i operations that stand before
\* base position p, or at p when atToo.
InsertedUpTo(ops, i, p, atToo) ==
    IF i = 0 THEN 0
    ELSE InsertedUpTo(ops, i - 1, p, atToo)
         + (IF /\ IsInsert(ops[i])
               /\ \/ BasePosition(ops, i) < p
                  \/ atToo /\ BasePosition(ops, i) = p
            THEN OpLength(ops[i]) ELSE 0)

PositionAfter(ops, p, prio) ==
    Cardinality({q \in 0 .. p - 1 : ~DeletesPosition(ops, q)})
    + InsertedUpTo(ops, Len(ops), p, ~prio)

MaxDiffOps == 2

RECURSIVE EditScripts(_, _, _, _)
\* The edit scripts that take s1 from position i to s2 from position j.
EditScripts(s1, i, s2, j) ==
    IF i = Len(s1) /\ j = Len(s2) THEN {<<>>}
    ELSE UNION
         ({{<<[type |-> "EQUAL", length |-> n]>> \o rest :
                rest \in EditScripts(s1, i + n, s2, j + n)} :
            n \in {m \in 1 .. Min(Len(s1) - i, Len(s2) - j) :
                     SubSeq(s1, i + 1, i + m) = SubSeq(s2, j + 1, j + m)}}
          \cup
          {{<<[type |-> "INSERT", length |-> n]>> \o rest :
                rest \in EditScripts(s1, i, s2, j + n)} :
            n \in 1 .. Len(s2) - j}
          \cup
          {{<<[type |-> "DELETE", length |-> n]>> \o rest :
                rest \in EditScripts(s1, i + n, s2, j)} :
            n \in 1 .. Len(s1) - i})

\* What the string diff may return for this and other.
DiffResults(ops, otherOps) ==
    EditScripts(DiffString(ops, 1), 0, DiffString(otherOps, 1), 0)

\* The operations the two scripts are made of, one family for a run: texts
\* with and without an attribute, embeds next to a text that is the
\* placeholder character, inserts with a false and a null attribute,
\* inserts next to deletes and retains.
DiffFamilies ==
    <<{InsertText(<<"a">>, <<>>), InsertText(<<"a">>, True), InsertText(<<"b">>, <<>>)},
      {InsertEmbed("img", 1, <<>>), InsertEmbed("img", 2, True),
       InsertText(<<NULL_CHARACTER>>, <<>>)},
      {InsertText(<<"a">>, False), InsertText(<<"a">>, Null), InsertEmbed("img", 1, <<>>)},
      {InsertText(<<"a">>, <<>>), DeleteOp(1), RetainNum(1, <<>>), RetainNum(1, True)}>>

InitDiff ==
    /\ \E f \in DOMAIN DiffFamilies :
           heap \in {[a |-> x, b |-> y, d |-> <<>>] :
                        x \in Built_(DiffFamilies[f], MaxDiffOps),
                        y \in Built_(DiffFamilies[f], MaxDiffOps)}
    /\ thisRef = "a"
    /\ otherRef \in {"a", "b"}
    /\ priority = FALSE
    /\ index = 0
    /\ edits = <<>>
    /\ handlers = {}
    /\ call = NoCall
    /\ out = <<>>
    /\ iter = Iterator(<<>>)
    /\ offset = 0

\* The string diff is called when the arrays differ and both scripts are
\* documents.
DiffCall ==
    /\ Len(out) = 0
    /\ \E components \in
            IF thisRef # otherRef /\ IsDocument(heap[thisRef])
                                 /\ IsDocument(heap[otherRef])
            THEN DiffResults(heap[thisRef], heap[otherRef])
            ELSE {<<>>} :
           /\ edits' = components
           /\ out' = <<Diff(heap[thisRef], heap[otherRef], thisRef = otherRef,
                            components)>>
    /\ call' = Called("diff", <<>>)
    /\ UNCHANGED <<heap, thisRef, otherRef, priority, index, handlers, iter, offset>>

DiffComposeCall ==
    /\ Len(out) = 1
    /\ out[1].error = ""
    /\ Returned("compose", Compose(heap[thisRef], out[1].ops, handlers))

NextDiff == DiffCall \/ DiffComposeCall

SpecDiff == InitDiff /\ [][NextDiff]_vars

HasNullAttribute(ops) ==
    \E i \in 1 .. Len(ops) : \E p \in MapOf(ops[i].attributes) : p[2] = "null"

\* C3 as claimed: for documents a and b and every edit script the string
\* diff may return, a.compose(a.diff(b)) is b.
C3_DiffRoundTrip_AnyDocuments ==
    (Len(out) = 2 /\ thisRef # otherRef) => out[2] = Ok(heap[otherRef])

\* C3, amended: the same, for documents b that carry no null-valued
\* attribute.
C3_DiffRoundTrip ==
    (Len(out) = 2 /\ thisRef # otherRef /\ ~HasNullAttribute(heap[otherRef]))
        => out[2] = Ok(heap[otherRef])

\* An embed of a stands where b has another embed, the string diff reported
\* the two placeholders as equal, and the composition has been made.
C3_Witness ==
    /\ Len(out) = 2 /\ thisRef # otherRef
    /\ Len(heap.a) > 0 /\ IsEmbedInsert(heap.a[1])
    /\ Len(heap.b) > 0 /\ IsEmbedInsert(heap.b[1])
    /\ heap.a[1].data # heap.b[1].data
    /\ Len(edits) > 0 /\ edits[1].type = "EQUAL"

\* C10: diff fails with NotADocument whenever this or other holds a delete
\* or a retain, also when both carry the very same list of operations; it
\* returns no script then.
C10_NotADocument ==
    (Len(out) >= 1 /\ (~IsDocument(heap[thisRef]) \/ ~IsDocument(heap[otherRef])))
        => out[1] = Throw("NotADocument")

(***************************************************************************)
(* invert: a document d (heap.d), a change c to it (heap.a), and           *)
(*   out[1] = d.compose(c)          out[2] = c.invert(d)                   *)
(*   out[3] = out[1].compose(out[2])                                       *)
(***************************************************************************)
MaxInvertOps == 3

\* The inserts the document is made of and the operations the change is
\* made of, one family for a run: a change that sets and unsets an attribute
\* on text that carries it or not, a change to one attribute of text and
\* embeds that carry another, a document that carries a null attribute.
InvertFamilies ==
    <<[document |-> {InsertText(<<"a">>, <<>>), InsertText(<<"b">>, True)},
       change |-> {InsertText(<<"a">>, <<>>), DeleteOp(1), RetainNum(1, <<>>),
                   RetainNum(1, True), RetainNum(1, Null)}],
      [document |-> {InsertText(<<"a">>, True), InsertText(<<"b">>, Italic),
                     InsertEmbed("img", 1, False)},
       change |-> {RetainNum(1, False), RetainNum(1, Null), RetainNum(1, <<>>),
                   DeleteOp(1)}],
      [document |-> {InsertText(<<"a">>, Null), InsertText(<<"b">>, <<>>)},
       change |-> {InsertText(<<"a">>, Null), DeleteOp(1), RetainNum(1, <<>>),
                   RetainNum(1, True)}]>>

\* The base positions a script reads: what its retains and deletes cover.
BaseLength(ops) == BasePosition(ops, Len(ops) + 1)

InitInvert ==
    /\ \E f \in DOMAIN InvertFamilies :
           heap \in {[a |-> c, b |-> <<>>, d |-> doc] :
                        doc \in Built_(InvertFamilies[f].document, MaxInvertOps),
                        c \in {x \in Built_(InvertFamilies[f].change, MaxInvertOps) :
                                 BaseLength(x) <= MaxInvertOps}}
    /\ BaseLength(heap.a) <= Length(heap.d)
    /\ thisRef = "a"
    /\ otherRef = "d"
    /\ priority = FALSE
    /\ index = 0
    /\ edits = <<>>
    /\ handlers = {}
    /\ call = NoCall
    /\ out = <<>>
    /\ iter = Iterator(<<>>)
    /\ offset = 0

InvertComposeCall ==
    /\ Len(out) \in {0, 2}
    /\ \A i \in 1 .. Len(out) : out[i].error = ""
    /\ Returned("compose",
                IF Len(out) = 0 THEN Compose(heap.d, heap.a, handlers)
                ELSE Compose(out[1].ops, out[2].ops, handlers))

InvertCall ==
    /\ Len(out) = 1
    /\ Returned("invert", Invert(heap.a, heap.d, handlers))

NextInvert == InvertComposeCall \/ InvertCall

SpecInvert == InitInvert /\ [][NextInvert]_vars

\* C2 as claimed: for a document d and a change c whose retains and deletes
\* stay within d.length(), d.compose(c).compose(c.invert(d)) is d.
C2_InversionRoundTrip_AnyDocument == Len(out) = 3 => out[3] = Ok(heap.d)

\* C2, amended: the same, for documents d that carry no null-valued
\* attribute.
C2_InversionRoundTrip ==
    (Len(out) = 3 /\ ~HasNullAttribute(heap.d)) => out[3] = Ok(heap.d)

\* The change unsets an attribute the document carries and sets none, and
\* the round trip has been made.
C2_Witness ==
    /\ Len(out) = 3
    /\ Len(heap.d) > 0 /\ heap.d[1].attributes = True
    /\ Len(heap.a) > 0 /\ IsNumRetain(heap.a[1]) /\ heap.a[1].attributes = Null
    /\ Len(out[2].ops) > 0 /\ out[2].ops[1].attributes = True

(***************************************************************************)
(* compose of a document d (heap.d) with two edits a and b, both ways:     *)
(*   out[1] = d.compose(a)          out[2] = out[1].compose(b)             *)
(*   out[3] = a.compose(b)          out[4] = d.compose(out[3])             *)
(* A composition of a failed composition is that failure.                  *)
(***************************************************************************)
MaxComposeOps == 2

\* The inserts the document is made of, the operations the edits are made
\* of and the registries they meet, one family for a run.
ComposeFamilies ==
    <<[document |-> {InsertText(<<"a">>, <<>>), InsertText(<<"b">>, True)},
       edit |-> {InsertText(<<"a">>, <<>>), DeleteOp(1), RetainNum(1, <<>>)},
       registries |-> {{}}],
      [document |-> {InsertText(<<"a">>, <<>>), InsertText(<<"b">>, True)},
       edit |-> {RetainNum(1, True), RetainNum(1, Null), DeleteOp(1)},
       registries |-> {{}}],
      [document |-> {InsertText(<<"a">>, <<>>), InsertText(<<"a">>, Null)},
       edit |-> {InsertText(<<"a">>, Null), RetainNum(1, Null), RetainNum(1, <<>>)},
       registries |-> {{}}],
      [document |-> {InsertText(<<"a">>, <<>>), InsertText(<<"a">>, False)},
       edit |-> {InsertText(<<"a">>, True), RetainNum(1, False), DeleteOp(1)},
       registries |-> {{}}],
      [document |-> {InsertEmbed("img", 1, <<>>), InsertText(<<"a">>, <<>>)},
       edit |-> {RetainEmbed("img", 1, <<>>), RetainEmbed("img", 2, True),
                 RetainNum(1, Null)},
       registries |-> {AllHandlers}],
      [document |-> {InsertEmbed("img", 1, <<>>), InsertEmbed("vid", 1, <<>>)},
       edit |-> {RetainEmbed("img", 1, <<>>), DeleteOp(1), InsertEmbed("img", 2, <<>>)},
       registries |-> {{}, AllHandlers}]>>

InitCompose ==
    /\ \E f \in DOMAIN ComposeFamilies :
           /\ heap \in {[a |-> x, b |-> y, d |-> doc] :
                           doc \in Built_(ComposeFamilies[f].document, MaxComposeOps),
                           x \in Built_(ComposeFamilies[f].edit, MaxComposeOps),
                           y \in Built_(ComposeFamilies[f].edit, MaxComposeOps)}
           /\ handlers \in ComposeFamilies[f].registries
    /\ thisRef = "d"
    /\ otherRef = "a"
    /\ priority = FALSE
    /\ index = 0
    /\ edits = <<>>
    /\ call = NoCall
    /\ out = <<>>
    /\ iter = Iterator(<<>>)
    /\ offset = 0

\* x.compose(y) of two earlier results.
ComposeResults(x, y) ==
    IF x.error # "" THEN x
    ELSE IF y.error # "" THEN y
    ELSE Compose(x.ops, y.ops, handlers)

ComposeLeftCall ==
    /\ Len(out) \in {0, 1}
    /\ Returned("compose",
                IF Len(out) = 0 THEN Compose(heap.d, heap.a, handlers)
                ELSE ComposeResults(out[1], Ok(heap.b)))

ComposeRightCall ==
    /\ Len(out) \in {2, 3}
    /\ Returned("compose",
                IF Len(out) = 2 THEN Compose(heap.a, heap.b, handlers)
                ELSE ComposeResults(Ok(heap.d), out[3]))

NextCompose == ComposeLeftCall \/ ComposeRightCall

SpecCompose == InitCompose /\ [][NextCompose]_vars

C6_LengthPreservation_AnyScripts ==
    (Len(out) >= 3 /\ out[3].error = "")
        => Length(out[3].ops) = Length(heap.a) + ChangeLength(heap.b)

\* C6, amended: for a document d and a script a whose retains and deletes
\* stay within d.length(), d.compose(a).length() is
\* d.length() + a.changeLength().
C6_LengthPreservation ==
    (Len(out) >= 1 /\ out[1].error = "" /\ BaseLength(heap.a) <= Length(heap.d))
        => Length(out[1].ops) = Length(heap.d) + ChangeLength(heap.a)

C6_Witness ==
    /\ Len(out) >= 1 /\ out[1].error = ""
    /\ BaseLength(heap.a) <= Length(heap.d)
    /\ \E i \in 1 .. Len(heap.a) : IsInsert(heap.a[i])
    /\ \E i \in 1 .. Len(heap.a) : IsDelete(heap.a[i])
    /\ Len(heap.d) = 2

(***************************************************************************)
(* The algebra on the heap.  A call reads the arrays of this and of other  *)
(* and writes to the array it allocates for the script it returns (const   *)
(* ops = [], new Delta(), this.ops.slice()): the array fresh.  The builder *)
(* calls made on the script under construction write to the array that     *)
(* script holds.                                                           *)
(***************************************************************************)
\* The heap after a call that built its result in a new array; the array of
\* a call that raised is dropped with the call's frame.
Allocated(h, fresh, result) ==
    [h EXCEPT ![fresh] = IF result.error = "" THEN result.ops ELSE <<>>]

\* A concat whose script under construction holds this.ops itself.
ConcatOnShared(h, this, other, fresh) ==
    IF Len(h[other]) > 0
    THEN LET pushed == [h EXCEPT ![this] = Push(h[this], h[other][1])]
         IN  [pushed EXCEPT ![fresh] =
                 pushed[this] \o SubSeq(pushed[other], 2, Len(pushed[other]))]
    ELSE [h EXCEPT ![fresh] = h[this]]

\* concat: delta holds a copy of this.ops, push writes to the copy, and
\* delta.ops becomes a new array again.
ConcatOn(h, this, other, fresh) ==
    LET copied == [h EXCEPT ![fresh] = h[this]]
    IN  IF Len(h[other]) > 0
        THEN LET pushed == [copied EXCEPT ![fresh] = Push(copied[fresh], h[other][1])]
             IN  [pushed EXCEPT ![fresh] =
                     pushed[fresh] \o SubSeq(pushed[other], 2, Len(pushed[other]))]
        ELSE copied

ComposeOn(h, this, other, registry, fresh) ==
    Allocated(h, fresh, Compose(h[this], h[other], registry))

TransformOn(h, this, other, prio, registry, fresh) ==
    Allocated(h, fresh, Transform(h[this], h[other], prio, registry))

InvertOn(h, this, base, registry, fresh) ==
    Allocated(h, fresh, Invert(h[this], h[base], registry))

DiffOn(h, this, other, components, fresh) ==
    Allocated(h, fresh, Diff(h[this], h[other], this = other, components))

SliceOn(h, this, start, end, fresh) ==
    Allocated(h, fresh, Ok(Slice(h[this], start, end)))

(***************************************************************************)
(* Calls of the algebra on two scripts a and b that stay in the caller's   *)
(* hands; other is b, or a itself.  out holds the result of the last call, *)
(* heap.d the array that call allocated, and priority, index and edits the *)
(* arguments it was given (FALSE, 0 and <<>> where it takes none).         *)
(***************************************************************************)
MaxAlgebraOps == 2

ImgHandler == {<<"img", "sum">>}

AlgebraFamilies ==
    <<[ops |-> {InsertText(<<"a">>, <<>>), InsertText(<<"b">>, True), DeleteOp(1)},
       otherOps |-> {InsertText(<<"a">>, <<>>), RetainNum(1, <<>>), DeleteOp(1)},
       registries |-> {{}}],
      [ops |-> {InsertText(<<"a">>, <<>>), InsertEmbed("img", 1, <<>>),
                RetainEmbed("img", 1, <<>>)},
       otherOps |-> {RetainEmbed("img", 1, <<>>), RetainEmbed("vid", 2, <<>>)},
       registries |-> {{}, ImgHandler}],
      [ops |-> {RetainNum(1, <<>>), RetainEmbed("img", 1, Null)},
       otherOps |-> {RetainNum(1, True), RetainEmbed("img", 1, <<>>)},
       registries |-> {{}}]>>

InitAlgebra ==
    /\ \E f \in DOMAIN AlgebraFamilies :
           /\ heap \in {[a |-> x, b |-> y, d |-> <<>>] :
                           x \in Built_(AlgebraFamilies[f].ops, MaxAlgebraOps),
                           y \in Built_(AlgebraFamilies[f].otherOps, MaxAlgebraOps)}
           /\ handlers \in AlgebraFamilies[f].registries
    /\ thisRef = "a"
    /\ otherRef \in {"a", "b"}
    /\ priority = FALSE
    /\ index = 0
    /\ edits = <<>>
    /\ call = NoCall
    /\ out = <<>>
    /\ iter = Iterator(<<>>)
    /\ offset = 0

\* The call name returned result and left the heap as after.
Answered(name, result, after) ==
    /\ heap' = after
    /\ out' = <<result>>
    /\ call' = Called(name, <<>>)
    /\ UNCHANGED <<thisRef, otherRef, handlers, iter, offset>>

ComposeOnCall ==
    /\ Answered("compose", Compose(heap[thisRef], heap[otherRef], handlers),
                ComposeOn(heap, thisRef, otherRef, handlers, "d"))
    /\ priority' = FALSE /\ index' = 0 /\ edits' = <<>>

TransformOnCall ==
    /\ \E prio \in BOOLEAN :
           /\ priority' = prio
           /\ Answered("transform",
                       Transform(heap[thisRef], heap[otherRef], prio, handlers),
                       TransformOn(heap, thisRef, otherRef, prio, handlers, "d"))
    /\ index' = 0 /\ edits' = <<>>

InvertOnCall ==
    /\ Answered("invert", Invert(heap[thisRef], heap[otherRef], handlers),
                InvertOn(heap, thisRef, otherRef, handlers, "d"))
    /\ priority' = FALSE /\ index' = 0 /\ edits' = <<>>

DiffOnCall ==
    /\ \E components \in
            IF thisRef # otherRef /\ IsDocument(heap[thisRef])
                                 /\ IsDocument(heap[otherRef])
            THEN DiffResults(heap[thisRef], heap[otherRef])
            ELSE {<<>>} :
           /\ edits' = components
           /\ Answered("diff",
                       Diff(heap[thisRef], heap[otherRef], thisRef = otherRef,
                            components),
                       DiffOn(heap, thisRef, otherRef, components, "d"))
    /\ priority' = FALSE /\ index' = 0

SliceOnCall ==
    /\ \E start \in 0 .. 1, end \in {2, Infinity} :
           /\ index' = start
           /\ Answered("slice", Ok(Slice(heap[thisRef], start, end)),
                       SliceOn(heap, thisRef, start, end, "d"))
    /\ priority' = FALSE /\ edits' = <<>>

ConcatOnCall ==
    /\ Answered("concat", Ok(Concat(heap[thisRef], heap[otherRef])),
                ConcatOn(heap, thisRef, otherRef, "d"))
    /\ priority' = FALSE /\ index' = 0 /\ edits' = <<>>

NextAlgebra ==
    \/ ComposeOnCall
    \/ TransformOnCall
    \/ InvertOnCall
    \/ DiffOnCall
    \/ SliceOnCall
    \/ ConcatOnCall

SpecAlgebra == InitAlgebra /\ [][NextAlgebra]_vars

ResultAllocated == (out # <<>> /\ out[1].error = "") => heap.d = out[1].ops

Constructed(given, fresh) == IF given = "" THEN fresh ELSE given

GivenArrays == {<<>>, <<InsertText(<<"a">>, <<>>)>>, <<DeleteOp(1)>>}

InitOwner ==
    /\ heap \in {[EmptyHeap EXCEPT !.a = ops] : ops \in GivenArrays}
    /\ otherRef = "a"
    /\ thisRef = Constructed(otherRef, "d")
    /\ priority = FALSE
    /\ index = 0
    /\ edits = <<>>
    /\ handlers = {}
    /\ call = NoCall
    /\ out = <<>>
    /\ iter = Iterator(<<>>)
    /\ offset = 0

SpecOwner == InitOwner /\ [][NextPush]_vars

\* C12: a builder call on a script constructed from an operation array (or
\* from an object carrying one) leaves the operation list seen through that
\* array as it was.
C12_ExclusiveOwnership == [][heap'[otherRef] = heap[otherRef]]_vars

(***************************************************************************)
(* The insert tie-break of transform, read off out[1], the outcome of      *)
(* a.transform(b, priority) under SpecTransform.                           *)
(***************************************************************************)
\* The number of inserts ops starts with, and their total length.
RECURSIVE LeadingInserts(_)
LeadingInserts(ops) ==
    IF ops = <<>> \/ ~IsInsert(ops[1]) THEN 0
    ELSE 1 + LeadingInserts(Tail(ops))

RECURSIVE LeadingLength(_)
LeadingLength(ops) ==
    IF ops = <<>> \/ ~IsInsert(ops[1]) THEN 0
    ELSE OpLength(ops[1]) + LeadingLength(Tail(ops))

\* ops skips at least n characters at place k: a retain without attributes
\* there, or nothing from k on (a trailing retain is chopped).
SkipsAt(ops, k, n) ==
    \/ Len(ops) = k - 1
    \/ /\ Len(ops) >= k
       /\ IsNumRetain(ops[k]) /\ ops[k].attributes = <<>> /\ ops[k].num >= n

\* op is the insert first, or first with the text of later inserts merged
\* into it.
StartsWith(op, first) ==
    \/ op = first
    \/ /\ IsTextInsert(op) /\ IsTextInsert(first)
       /\ op.attributes = first.attributes
       /\ Len(op.str) > Len(first.str)
       /\ SubSeq(op.str, 1, Len(first.str)) = first.str

OnlyInserts(ops) == \A i \in 1 .. Len(ops) : IsInsert(ops[i])

\* C13: when a and b both insert at the start of the base,
\* a.transform(b, true) starts with a retain of the length of a's inserts
\* followed by b's insert (with what merged into it), and
\* a.transform(b, false) starts with b's inserts
\* followed by the retain that skips a's inserts; when a inserts and b does
\* not, the result starts with the retain that skips a's inserts, whatever
\* the priority.  Where both scripts only insert, the result is exactly the
\* retain followed by b (priority) or b (no priority).
C13_InsertTieBreak ==
    (/\ Len(out) >= 1 /\ out[1].error = ""
     /\ heap.a # <<>> /\ IsInsert(heap.a[1]))
        => LET r == out[1].ops
               la == LeadingLength(heap.a)
               kb == LeadingInserts(heap.b)
           IN  /\ IF kb > 0 /\ priority
                  THEN /\ Len(r) >= 2
                       /\ r[1] = RetainNum(la, <<>>)
                       /\ StartsWith(r[2], heap.b[1])
                  ELSE /\ Len(r) >= kb
                       /\ SubSeq(r, 1, kb) = SubSeq(heap.b, 1, kb)
                       /\ SkipsAt(r, kb + 1, la)
               /\ (OnlyInserts(heap.a) /\ OnlyInserts(heap.b) /\ kb > 0)
                      => r = IF priority THEN <<RetainNum(la, <<>>)>> \o heap.b
                             ELSE heap.b

\* Both scripts insert at the start, a has no priority, and the retain that
\* skips a's insert is in the result, after b's insert.
C13_Witness ==
    /\ Len(out) >= 1 /\ out[1].error = ""
    /\ ~priority
    /\ heap.a # <<>> /\ IsInsert(heap.a[1])
    /\ heap.b # <<>> /\ IsInsert(heap.b[1])
    /\ Len(out[1].ops) > LeadingInserts(heap.b)
    /\ out[1].ops[1] = heap.b[1]
    /\ IsNumRetain(out[1].ops[LeadingInserts(heap.b) + 1])

(***************************************************************************)
(* The embed registry: Delta.handlers, a map from embed type to handler,   *)
(* written by registerEmbed and unregisterEmbed and read by getHandler.    *)
(* out is the log of the calls made, each with what it was given and what  *)
(* it returned or threw.                                                   *)
(***************************************************************************)
MaxRegistryCalls == 4

EmbedTypes == {"img", "vid"}

HandlerValues == {"sum", "alt"}

\* A registerEmbed that keeps the handler a type already has.
RegisterEmbedOnce(registry, embedType, handler) ==
    IF Registered(registry, embedType) THEN registry
    ELSE registry \cup {<<embedType, handler>>}

\* this.handlers[embedType] = handler
RegisterEmbed(registry, embedType, handler) ==
    {p \in registry : p[1] # embedType} \cup {<<embedType, handler>>}

\* delete this.handlers[embedType]
UnregisterEmbed(registry, embedType) == {p \in registry : p[1] # embedType}

\* getHandler(embedType): the handler returned, or the error thrown.
GetHandler(registry, embedType) ==
    IF HandlerError(registry, embedType) # ""
    THEN [error |-> HandlerError(registry, embedType), handler |-> ""]
    ELSE [error |-> "", handler |-> HandlerOf(registry, embedType)]

InitRegistry ==
    /\ heap = EmptyHeap
    /\ thisRef = "a"
    /\ otherRef = "b"
    /\ priority = FALSE
    /\ index = 0
    /\ edits = <<>>
    /\ handlers = {}
    /\ call = NoCall
    /\ out = <<>>
    /\ iter = Iterator(<<>>)
    /\ offset = 0

\* The call name on embedType is logged with the handler given or returned
\* and the error thrown.
Logged(name, embedType, handler, error) ==
    /\ Len(out) < MaxRegistryCalls
    /\ out' = Append(out, [name |-> name, embedType |-> embedType,
                           handler |-> handler, error |-> error])
    /\ call' = Called(name, <<>>)
    /\ UNCHANGED <<heap, thisRef, otherRef, priority, index, edits, iter, offset>>

RegisterEmbedCall ==
    \E embedType \in EmbedTypes, handler \in HandlerValues :
        /\ handlers' = RegisterEmbed(handlers, embedType, handler)
        /\ Logged("registerEmbed", embedType, handler, "")

UnregisterEmbedCall ==
    \E embedType \in EmbedTypes :
        /\ handlers' = UnregisterEmbed(handlers, embedType)
        /\ Logged("unregisterEmbed", embedType, "", "")

GetHandlerCall ==
    \E embedType \in EmbedTypes :
        /\ handlers' = handlers
        /\ Logged("getHandler", embedType,
                  GetHandler(handlers, embedType).handler,
                  GetHandler(handlers, embedType).error)

NextRegistry == RegisterEmbedCall \/ UnregisterEmbedCall \/ GetHandlerCall

SpecRegistry == InitRegistry /\ [][NextRegistry]_vars

\* The calls before place n of the log that wrote the entry of embedType.
WritesBefore(n, embedType) ==
    {j \in 1 .. n - 1 : /\ out[j].embedType = embedType
                         /\ out[j].name \in {"registerEmbed", "unregisterEmbed"}}

\* What the claim says a lookup of embedType answers after the first n - 1
\* calls of the log.
LookupClaimed(n, embedType) ==
    LET writes == WritesBefore(n, embedType)
        last == CHOOSE j \in writes : \A k \in writes : k <= j
    IN  IF writes # {} /\ out[last].name = "registerEmbed"
        THEN [error |-> "", handler |-> out[last].handler]
        ELSE [error |-> "UnknownEmbedType", handler |-> ""]

\* C14: after any sequence of registerEmbed and unregisterEmbed calls, a
\* lookup of a type succeeds iff the most recent of them naming the type was
\* a registerEmbed, and then returns the handler that call registered;
\* otherwise it fails with UnknownEmbedType.  This holds of every lookup
\* made and of the lookup that could be made now.
C14_RegistryLookup ==
    /\ \A n \in 1 .. Len(out) :
           out[n].name = "getHandler"
               => [error |-> out[n].error, handler |-> out[n].handler]
                      = LookupClaimed(n, out[n].embedType)
    /\ \A embedType \in EmbedTypes :
           GetHandler(handlers, embedType) = LookupClaimed(Len(out) + 1, embedType)

\* A type was registered twice with different handlers, the other type was
\* unregistered, and a later lookup returned the second handler.
C14_Witness ==
    /\ Len(out) >= 4
    /\ \E i, j, k, n \in 1 .. Len(out) :
           /\ i < j /\ j < n /\ k < n
           /\ out[i].name = "registerEmbed" /\ out[i].embedType = "img"
           /\ out[j].name = "registerEmbed" /\ out[j].embedType = "img"
           /\ out[i].handler # out[j].handler
           /\ out[k].name = "unregisterEmbed" /\ out[k].embedType = "vid"
           /\ out[n].name = "getHandler" /\ out[n].embedType = "img"
           /\ out[n].handler = out[j].handler

(***************************************************************************)
(* An OpIterator in the hands of a caller: new OpIterator(ops) over a list *)
(* of operations of positive length, followed by next, peek, peekLength,   *)
(* peekType, hasNext and rest calls.  out is the list of the slices next   *)
(* returned while there was an operation to slice; call holds the last     *)
(* call, the length it was given (<<>> when absent) and what it returned.  *)
(***************************************************************************)
MaxIteratorOps == 2

MaxSliceLength == 2

IteratorOps ==
    {InsertText(<<"a", "b", "c">>, True), InsertEmbed("img", 1, <<>>), DeleteOp(2),
     RetainNum(2, Italic), RetainEmbed("img", 1, Null)}

LengthArgs == {<<>>} \cup {<<n>> : n \in 0 .. MaxSliceLength}

\* The length next() works with: 0 stands for an argument that is absent.
GivenLength(length) == IF length = <<>> THEN 0 ELSE length[1]

InitIterator ==
    /\ iter \in {Iterator(ops) : ops \in Built_(IteratorOps, MaxIteratorOps)}
    /\ heap = EmptyHeap
    /\ thisRef = "a"
    /\ otherRef = "b"
    /\ priority = FALSE
    /\ index = 0
    /\ edits = <<>>
    /\ handlers = {}
    /\ call = NoCall
    /\ out = <<>>
    /\ offset = 0

\* The call name, given length, returned result and left the iterator as it.
Iterated(name, length, result, it) ==
    /\ iter' = it
    /\ call' = [name |-> name, pushed |-> <<>>, length |-> length,
                returned |-> result]
    /\ UNCHANGED <<heap, thisRef, otherRef, priority, index, edits, handlers, offset>>

NextCall ==
    \E length \in LengthArgs :
        LET n == IterNext(iter, GivenLength(length))
        IN  /\ Iterated("next", length, n.op, n.it)
            /\ out' = IF HasOp(iter) THEN Append(out, n.op) ELSE out

PeekCall ==
    /\ Iterated("peek", <<>>, IF HasOp(iter) THEN <<Peek(iter)>> ELSE <<>>, iter)
    /\ UNCHANGED out

PeekLengthCall ==
    /\ Iterated("peekLength", <<>>, PeekLength(iter), iter)
    /\ UNCHANGED out

PeekTypeCall ==
    /\ Iterated("peekType", <<>>, PeekType(iter), iter)
    /\ UNCHANGED out

HasNextCall ==
    /\ Iterated("hasNext", <<>>, HasNext(iter), iter)
    /\ UNCHANGED out

RestCall ==
    /\ Iterated("rest", <<>>, IterRest(iter).ops, IterRest(iter).it)
    /\ UNCHANGED out

NextIterator ==
    \/ NextCall
    \/ PeekCall
    \/ PeekLengthCall
    \/ PeekTypeCall
    \/ HasNextCall
    \/ RestCall

SpecIterator == InitIterator /\ [][NextIterator]_vars

\* The total length of what the iterator has not returned yet.
RemainingLength(it) ==
    IF HasOp(it) THEN SumOver(it.ops, it.index + 1, "length") - it.offset ELSE 0

\* The step is a next call on an iterator that has an operation, with a
\* length that is absent or positive.
SlicingStep ==
    /\ HasNext(iter)
    /\ iter' # iter
    /\ call'.name = "next"
    /\ call'.length = <<>> \/ call'.length[1] > 0

\* C15: a next(len) call made while hasNext() is true, with len absent or
\* positive, returns an operation with the tag and attributes of the
\* current one and of length min(len or infinity, peekLength() before the
\* call), a text being cut where the last slice ended, and reduces the
\* total remaining length by that amount; and once
\* the list is traversed, the slices returned, pushed one after the other,
\* give back the list.
C15_IteratorSlicing ==
    /\ [][SlicingStep =>
              LET slice == call'.returned
                  taken == Min(IF call'.length = <<>> THEN Infinity
                               ELSE call'.length[1],
                               PeekLength(iter))
              IN  /\ slice.tag = Peek(iter).tag
                  /\ slice.kind = Peek(iter).kind
                  /\ slice.key = Peek(iter).key
                  /\ slice.data = Peek(iter).data
                  /\ slice.attributes = Peek(iter).attributes
                  /\ OpLength(slice) = taken
                  /\ IsTextInsert(slice)
                         => slice.str = SubSeq(Peek(iter).str, iter.offset + 1,
                                               iter.offset + taken)
                  /\ RemainingLength(iter') = RemainingLength(iter) - taken
                  /\ out' = Append(out, slice)]_vars
    /\ [](~HasNext(iter) => PushAll(<<>>, out, 1) = iter.ops)

\* A text insert was returned in more than one slice, and the list is
\* traversed.
C15_Witness ==
    /\ ~HasNext(iter)
    /\ Len(out) > Len(iter.ops)
    /\ \E i \in 1 .. Len(out) - 1 :
           /\ IsTextInsert(out[i]) /\ IsTextInsert(out[i + 1])
           /\ Len(out[i].str) = 2

\* C20: whenever the iterator is on an operation, its offset is at least 0
\* and less than the length of that operation, so that peekLength() is at
\* least 1; and no peekLength() call returned 0.
C20_OffsetWithinOp ==
    /\ HasOp(iter) => /\ 0 <= iter.offset
                      /\ iter.offset < OpLength(Peek(iter))
                      /\ PeekLength(iter) >= 1
    /\ call.name = "peekLength" => call.returned >= 1

\* The iterator stands inside an operation after next(0), partial next
\* calls and a rest call.
C20_Witness ==
    /\ HasOp(iter) /\ iter.offset > 0
    /\ call.name = "rest"
    /\ Len(call.returned) = Len(iter.ops) - iter.index
    /\ Len(out) >= 2
    /\ iter.index > 0

(***************************************************************************)
(* transform of two embed retains of one type that has no handler, read    *)
(* off out[1], the outcome of a.transform(b, priority) under               *)
(* SpecTransform.                                                          *)
(***************************************************************************)
\* Both scripts start with an embed retain of the same embed type.
SameEmbedAtStart(ops, otherOps) ==
    /\ ops # <<>> /\ IsEmbedRetain(ops[1])
    /\ otherOps # <<>> /\ IsEmbedRetain(otherOps[1])
    /\ ops[1].key = otherOps[1].key

\* C16: when both aligned operations are embed retains of the same embed
\* type and no handler is registered for it, transform does not fail and
\* emits other's embed retain with the transformed attributes.
C16_UnregisteredFallsThrough ==
    (/\ Len(out) >= 1
     /\ SameEmbedAtStart(heap.a, heap.b)
     /\ ~Registered(handlers, heap.a[1].key))
        => /\ out[1].error = ""
           /\ out[1].ops # <<>>
           /\ out[1].ops[1] =
                  RetainEmbed(heap.b[1].key, heap.b[1].data,
                              AttrTransform(heap.a[1].attributes,
                                            heap.b[1].attributes, priority))

(***************************************************************************)
(* transformPosition, one turn of its loop at a time: iter is thisIter,    *)
(* offset the local offset, out[1] the local index as rewritten so far,    *)
(* and index the position the call was given.                              *)
(***************************************************************************)
\* A turn of the loop that advances the offset past a delete as well.
PositionStepAdvancing(thisIter, off, idx, prio) ==
    LET length == PeekLength(thisIter)
        nextType == PeekType(thisIter)
        after == NextWhole(thisIter).it
    IN  IF nextType = "delete"
        THEN [it |-> after, offset |-> off + length,
              index |-> idx - Min(length, idx - off)]
        ELSE [it |-> after, offset |-> off + length,
              index |-> IF nextType = "insert" /\ (off < idx \/ ~prio)
                        THEN idx + length ELSE idx]

\* A turn of the loop: the iterator, the offset and the index after it.
PositionStep(thisIter, off, idx, prio) ==
    LET length == PeekLength(thisIter)
        nextType == PeekType(thisIter)
        after == NextWhole(thisIter).it
    IN  IF nextType = "delete"
        THEN [it |-> after, offset |-> off,
              index |-> idx - Min(length, idx - off)]
        ELSE [it |-> after, offset |-> off + length,
              index |-> IF nextType = "insert" /\ (off < idx \/ ~prio)
                        THEN idx + length ELSE idx]

InitWalk ==
    /\ heap \in {[a |-> x, b |-> <<>>, d |-> <<>>] :
                    x \in Built_(PositionOps, MaxPositionOps)}
    /\ thisRef = "a"
    /\ otherRef = "b"
    /\ priority \in BOOLEAN
    /\ index \in 0 .. MaxPosition
    /\ edits = <<>>
    /\ handlers = {}
    /\ call = NoCall
    /\ out = <<index>>
    /\ iter = Iterator(heap.a)
    /\ offset = 0

\* while (thisIter.hasNext() && offset <= index)
Walking == call.name # "transformPosition" /\ HasNext(iter) /\ offset <= out[1]

\* A turn of the loop on an operation of type nextType.
Walked(nextType) ==
    /\ Walking
    /\ PeekType(iter) = nextType
    /\ LET after == PositionStep(iter, offset, out[1], priority)
       IN  /\ iter' = after.it
           /\ offset' = after.offset
           /\ out' = <<after.index>>
    /\ call' = Called(nextType, <<>>)
    /\ UNCHANGED <<heap, thisRef, otherRef, priority, index, edits, handlers>>

DeleteStep == Walked("delete")

InsertStep == Walked("insert")

RetainStep == Walked("retain")

ReturnStep ==
    /\ call.name # "transformPosition"
    /\ ~Walking
    /\ call' = Called("transformPosition", <<>>)
    /\ UNCHANGED <<heap, args, out>>

NextWalk == DeleteStep \/ InsertStep \/ RetainStep \/ ReturnStep

SpecWalk == InitWalk /\ [][NextWalk]_vars

\* The total length of the first n operations of ops, and that of the
\* inserts and retains among them.
RECURSIVE LengthOfFirst(_, _)
LengthOfFirst(ops, n) ==
    IF n = 0 THEN 0 ELSE LengthOfFirst(ops, n - 1) + OpLength(ops[n])

RECURSIVE KeptLengthOfFirst(_, _)
KeptLengthOfFirst(ops, n) ==
    IF n = 0 THEN 0
    ELSE KeptLengthOfFirst(ops, n - 1)
         + (IF IsDelete(ops[n]) THEN 0 ELSE OpLength(ops[n]))

\* C17 as claimed: the offset has advanced by the full length of every
\* operation processed, deletes included, and the position returned is that
\* of the walk whose offset advances after deletes as well.
C17_OffsetAdvancesAlways ==
    /\ offset = LengthOfFirst(heap.a, iter.index)
    /\ call.name = "transformPosition"
           => out[1] = TransformPositionAdvancing(heap.a, index, priority)

\* C17, amended: the offset has advanced by the full length of every insert
\* and retain processed and not by that of the deletes, and the position
\* returned is that of the walk whose offset advances after inserts and
\* retains only.
C17_OffsetSkipsDeletes ==
    /\ offset = KeptLengthOfFirst(heap.a, iter.index)
    /\ call.name = "transformPosition"
           => out[1] = TransformPosition(heap.a, index, priority)

\* The walk went past a delete and then past an insert or a retain, and
\* returned a position that the walk advancing after deletes does not.
C17_Witness ==
    /\ call.name = "transformPosition"
    /\ \E i \in 2 .. iter.index :
           IsDelete(heap.a[i - 1]) /\ ~IsDelete(heap.a[i])
    /\ offset > 0
    /\ out[1] # TransformPositionAdvancing(heap.a, index, priority)

(***************************************************************************)
(* compose where embed retains are aligned, read off the compose calls of  *)
(* SpecAlgebra: out[1] is the outcome of this.compose(other).              *)
(***************************************************************************)
OnlyRetains(ops) == \A i \in 1 .. Len(ops) : ops[i].tag = "retain"

\* The operation of ops, a script of retains and deletes, that covers base
\* position q.
Covering(ops, q) ==
    ops[CHOOSE i \in 1 .. Len(ops) :
            /\ BasePosition(ops, i) <= q
            /\ q < BasePosition(ops, i) + OpLength(ops[i])]

\* The base positions both scripts cover.
Aligned(ops, otherOps) ==
    0 .. (Min(BaseLength(ops), BaseLength(otherOps)) - 1)

\* The base positions where both scripts retain an embed, and those where
\* one retains an embed and the other a count.
BothEmbeds(ops, otherOps) ==
    {q \in Aligned(ops, otherOps) :
        IsEmbedRetain(Covering(ops, q)) /\ IsEmbedRetain(Covering(otherOps, q))}

OneEmbed(ops, otherOps) ==
    {q \in Aligned(ops, otherOps) :
        IsEmbedRetain(Covering(ops, q)) # IsEmbedRetain(Covering(otherOps, q))}

\* C18: in compose, where one of two aligned retains is an embed retain and
\* the other an integer retain, in either order, the result retains that
\* embed with its value unchanged; and no handler is looked up: with no
\* handler registered the call succeeds, as long as no position has an
\* embed retain on both sides.
C18_EmbedMeetsCount ==
    (/\ call.name = "compose"
     /\ OnlyRetains(heap[thisRef]) /\ OnlyRetains(heap[otherRef])
     /\ BothEmbeds(heap[thisRef], heap[otherRef]) = {})
        => /\ out[1].error = ""
           /\ \A q \in OneEmbed(heap[thisRef], heap[otherRef]) :
                  LET embed == IF IsEmbedRetain(Covering(heap[thisRef], q))
                               THEN Covering(heap[thisRef], q)
                               ELSE Covering(heap[otherRef], q)
                      made == Covering(out[1].ops, q)
                  IN  /\ BaseLength(out[1].ops) > q
                      /\ IsEmbedRetain(made)
                      /\ made.key = embed.key
                      /\ made.data = embed.data

\* With no handler registered, compose has returned a script for an embed
\* retain of this met by a count of other and a count of this met by an
\* embed retain of other.
C18_Witness ==
    /\ call.name = "compose" /\ out[1].error = ""
    /\ handlers = {}
    /\ OnlyRetains(heap[thisRef]) /\ OnlyRetains(heap[otherRef])
    /\ \E q, r \in OneEmbed(heap[thisRef], heap[otherRef]) :
           /\ IsEmbedRetain(Covering(heap[thisRef], q))
           /\ IsEmbedRetain(Covering(heap[otherRef], r))
           /\ IsEmbedRetain(Covering(out[1].ops, q))
           /\ IsEmbedRetain(Covering(out[1].ops, r))

\* other starts with an embed retain and this with an insert or an embed
\* retain: the two are the first operations compose aligns.
FacesEmbedRetain(ops, otherOps) ==
    /\ otherOps # <<>> /\ IsEmbedRetain(otherOps[1])
    /\ ops # <<>> /\ (IsInsert(ops[1]) \/ IsEmbedRetain(ops[1]))

\* The error the claim gives for the first operations of the two scripts,
\* or "" when it gives none.
ErrorClaimed(thisOp, otherOp, registry) ==
    IF IsTextInsert(thisOp) THEN "CannotRetainNonObject"
    ELSE IF thisOp.key # otherOp.key THEN "EmbedTypeMismatch"
    ELSE IF ~Registered(registry, thisOp.key) THEN "UnknownEmbedType"
    ELSE ""

\* C19: when other's aligned operation is an embed retain and this's is an
\* insert or an embed retain, compose fails with CannotRetainNonObject for a
\* text insert, with EmbedTypeMismatch for embeds of different types
\* (whatever is registered), and with UnknownEmbedType for embeds of one
\* type that has no handler; a compose that fails returns no script and
\* leaves this, other and the registry as they were.
C19_ComposeErrors ==
    /\ []((/\ call.name = "compose"
           /\ FacesEmbedRetain(heap[thisRef], heap[otherRef])
           /\ ErrorClaimed(heap[thisRef][1], heap[otherRef][1], handlers) # "")
              => /\ out[1] = Throw(ErrorClaimed(heap[thisRef][1], heap[otherRef][1],
                                                handlers))
                 /\ heap.d = <<>>)
    /\ [][(call'.name = "compose" /\ out'[1].error # "")
              => /\ out'[1].ops = <<>>
                 /\ heap'[thisRef] = heap[thisRef]
                 /\ heap'[otherRef] = heap[otherRef]
                 /\ handlers' = handlers]_vars

\* compose has failed with EmbedTypeMismatch although the type of this's
\* embed is registered.
C19_Witness ==
    /\ call.name = "compose"
    /\ FacesEmbedRetain(heap[thisRef], heap[otherRef])
    /\ IsEmbedInsert(heap[thisRef][1])
    /\ Registered(handlers, heap[thisRef][1].key)
    /\ out[1].error = "EmbedTypeMismatch"

(***************************************************************************)
(* eachLine: the calls of the predicate it makes, each with the line, the  *)
(* attributes and the index handed over.  refused is the set of indexes at *)
(* which the predicate returns false.                                      *)
(***************************************************************************)
\* sep stands in s at place i, counted from 0.
OccursAt(s, sep, i) ==
    /\ i + Len(sep) <= Len(s)
    /\ SubSeq(s, i + 1, i + Len(sep)) = sep

\* s.indexOf(sep, start)
IndexOf(s, sep, start) ==
    IF \E i \in start .. Len(s) : OccursAt(s, sep, i)
    THEN CHOOSE i \in start .. Len(s) :
             /\ OccursAt(s, sep, i)
             /\ \A j \in start .. i - 1 : ~OccursAt(s, sep, j)
    ELSE 0 - 1

RECURSIVE EachLineLoop(_, _, _, _, _, _)
EachLineLoop(it, line, i, calls, newline, refused) ==
    IF ~HasNext(it)
    THEN IF Length(line) > 0
         THEN Append(calls, [line |-> line, attributes |-> {}, index |-> i])
         ELSE calls
    ELSE IF PeekType(it) # "insert" THEN calls
    ELSE LET thisOp == Peek(it)
             start == OpLength(thisOp) - PeekLength(it)
             found == IF IsTextInsert(thisOp)
                      THEN IndexOf(thisOp.str, newline, start) - start
                      ELSE 0 - 1
         IN  IF found < 0
             THEN EachLineLoop(NextWhole(it).it, Push(line, NextWhole(it).op), i,
                               calls, newline, refused)
             ELSE IF found > 0
             THEN EachLineLoop(IterNext(it, found).it,
                               Push(line, IterNext(it, found).op), i, calls,
                               newline, refused)
             ELSE LET n == IterNext(it, 1)
                      made == Append(calls, [line |-> line,
                                             attributes |-> MapOf(n.op.attributes),
                                             index |-> i])
                  IN  IF i \in refused THEN made
                      ELSE EachLineLoop(n.it, <<>>, i + 1, made, newline, refused)

EachLine(ops, newline, refused) ==
    EachLineLoop(Iterator(ops), <<>>, 0, <<>>, newline, refused)

(***************************************************************************)
(* eachLine called on a script the builder made, with a separator and a    *)
(* predicate; out is the list of the calls of the predicate, call holds    *)
(* the separator and the indexes the predicate refuses.                    *)
(***************************************************************************)
MaxLineOps == 4

LineOps ==
    {InsertText(<<"x">>, <<>>), InsertText(<<"n">>, <<>>), InsertText(<<"r">>, <<>>),
     InsertText(<<"n">>, True), InsertEmbed("img", 1, <<>>), RetainNum(1, <<>>)}

Newlines == {<<"n">>, <<"r", "n">>, <<"n", "n">>}

Refusals == {{}, {0}, {1}}

InitLines ==
    /\ heap \in {[EmptyHeap EXCEPT !.a = ops] : ops \in Built_(LineOps, MaxLineOps)}
    /\ thisRef = "a"
    /\ otherRef = "b"
    /\ priority = FALSE
    /\ index = 0
    /\ edits = <<>>
    /\ handlers = {}
    /\ call = NoCall
    /\ out = <<>>
    /\ iter = Iterator(<<>>)
    /\ offset = 0

EachLineCall ==
    \E newline \in Newlines, refused \in Refusals :
        /\ out' = EachLine(heap[thisRef], newline, refused)
        /\ call' = [name |-> "eachLine", pushed |-> <<>>, newline |-> newline,
                    refused |-> refused]
        /\ UNCHANGED <<heap, args>>

NextLines == EachLineCall

SpecLines == InitLines /\ [][NextLines]_vars

\* The text of a script of text inserts.
RECURSIVE TextOf(_)
TextOf(ops) == IF ops = <<>> THEN <<>> ELSE ops[1].str \o TextOf(Tail(ops))

OnlyText(ops) == \A k \in 1 .. Len(ops) : IsTextInsert(ops[k])

\* The number of occurrences of sep in s from place i on, counted from the
\* left without overlap.
RECURSIVE Occurrences(_, _, _)
Occurrences(s, sep, i) ==
    IF IndexOf(s, sep, i) < 0 THEN 0
    ELSE 1 + Occurrences(s, sep, IndexOf(s, sep, i) + Len(sep))

\* What is left of s after its last occurrence of sep.
RECURSIVE Remainder(_, _, _)
Remainder(s, sep, i) ==
    IF IndexOf(s, sep, i) < 0 THEN SubSeq(s, i + 1, Len(s))
    ELSE Remainder(s, sep, IndexOf(s, sep, i) + Len(sep))

\* The texts of the lines of calls from the k-th on, joined by sep.
RECURSIVE Joined(_, _, _)
Joined(calls, sep, k) ==
    IF k > Len(calls) THEN <<>>
    ELSE TextOf(calls[k].line)
         \o (IF k < Len(calls) THEN sep ELSE <<>>)
         \o Joined(calls, sep, k + 1)

EndsWith(s, sep) == Len(s) >= Len(sep) /\ OccursAt(s, sep, Len(s) - Len(sep))

\* C21: for a document of text inserts, any non-empty separator and a
\* predicate that never returns false, the predicate is called once for
\* every occurrence of the separator and once more for a non-empty
\* remainder, with the indexes 0, 1, 2, ... in order, the texts of the
\* lines joined by the separator (with a final separator when the document
\* ends with one) are the text of the document, and the line of the
\* remainder comes with empty attributes.
C21_SplitsOnSeparator ==
    (/\ call.name = "eachLine" /\ call.refused = {}
     /\ OnlyText(heap.a))
        => LET text == TextOf(heap.a)
               sep == call.newline
               rest == Remainder(text, sep, 0)
           IN  /\ Len(out) = Occurrences(text, sep, 0)
                                + (IF rest # <<>> THEN 1 ELSE 0)
               /\ \A k \in 1 .. Len(out) : out[k].index = k - 1
               /\ Joined(out, sep, 1)
                      \o (IF EndsWith(text, sep) THEN sep ELSE <<>>) = text
               /\ (rest # <<>> /\ out # <<>>) => out[Len(out)].attributes = {}

(***************************************************************************)
(* The form of the scripts the algebra returns, read off the calls of      *)
(* SpecAlgebra, whose inputs the builder made.                             *)
(***************************************************************************)
NormalForm(ops) ==
    /\ NoZeroLength(ops)
    /\ NoMergeable(ops)
    /\ NoInsertAfterDelete(ops)
    /\ NoTrailingBareRetain(ops)

\* C22: for inputs the builder made, the script compose, transform, invert
\* or diff returns has no operation of length zero, no two adjacent
\* mergeable operations, no insert right after a delete, and no integer
\* retain without attributes at its end.
C22_OutputsNormal ==
    (/\ call.name \in {"compose", "transform", "invert", "diff"}
     /\ out[1].error = "")
        => NormalForm(out[1].ops)

\* compose has returned through its tail fast path: other is a single
\* retain of length 1, this one text insert of length 2, and the rest of the
\* insert was merged into the slice of it composed before.
C22_Witness ==
    /\ call.name = "compose" /\ out[1].error = ""
    /\ otherRef = "b"
    /\ NoMergeable(heap.a) /\ NoMergeable(heap.b)
    /\ Len(heap.b) = 1 /\ BareRetain(heap.b[1]) /\ heap.b[1].num = 1
    /\ Len(heap.a) = 1 /\ IsTextInsert(heap.a[1]) /\ Len(heap.a[1].str) = 2
    /\ out[1].ops = heap.a

(***************************************************************************)
(* The order of transformed positions, read off the walk of SpecWalk:      *)
(* out[1] is the index as rewritten so far and, once the call has          *)
(* returned, the position transformPosition gives for index.               *)
(***************************************************************************)
\* C23: transformPosition returns a position that is not negative, and for
\* positions 0 <= p <= q the position returned for p is at most the one
\* returned for q; during the walk the index is never negative and, right
\* after a delete is applied, not below the offset.
C23_PositionOrder ==
    /\ out[1] >= 0
    /\ call.name = "delete" => out[1] >= offset
    /\ call.name = "transformPosition"
           => \A p \in 0 .. index :
                  /\ TransformPosition(heap.a, p, priority) >= 0
                  /\ TransformPosition(heap.a, p, priority) <= out[1]

\* The walk went past a delete that removed the position before index, so
\* that both positions are sent to the same place, after a smaller position
\* that is sent to a smaller place.
C23_Witness ==
    /\ call.name = "transformPosition"
    /\ index >= 2
    /\ \E i \in 1 .. iter.index : IsDelete(heap.a[i])
    /\ TransformPosition(heap.a, index - 1, priority) = out[1]
    /\ TransformPosition(heap.a, 0, priority) < out[1]
====
